---- MODULE Spec2Model ----
(***************************************************************************)
(* A model of the GameTank emulator core (src/tools/gte/core): the blitter *)
(* DMA engine, the CPU bus window at 0x4000-0x7FFF with the two            *)
(* framebuffers and VRAM, the 2MB flash cartridge and its bank-select      *)
(* shift register behind the VIA, and the scheduler with its input         *)
(* commands.                                                               *)
(***************************************************************************)
EXTENDS Integers, Sequences, FiniteSets, TLC

VARIABLES
    blit,               \* Blitter: the engine's latched parameters and cursor
    regs,               \* CpuBus.blitter: BlitterRegisters, with BlitStart
    dma_flags,          \* CpuBus.system_control.dma_flags (0x2007)
    banking_register,   \* CpuBus.system_control.banking_register (0x2005)
    framebuffers,       \* CpuBus.framebuffers: [0..1 -> cells that differ from the fill]
    vram_banks,         \* CpuBus.vram_banks: non-zero cells, keyed <<page, index>>
    vram_quad_written,  \* CpuBus.vram_quad_written: the indices that are true
    data,               \* Cartridge2M.data: [fills, cells] over the loaded image
    bank_shifter,       \* Cartridge2M.bank_shifter
    bank_mask,          \* Cartridge2M.bank_mask
    flash,              \* FlashStateMachine: [state, buffer]
    ticks,              \* engine cycles since (and with) the cycle that latched a start
    quiet,              \* no bus access since the cycle that latched a start
    wlog,               \* framebuffer cells the engine wrote since that cycle
    last,               \* what the last step was, and what it did
    ops,                \* bus accesses made so far
    via_regs,           \* CpuBus.system_control.via_regs: [0..15 -> u8]
    sdk,                \* Via::change_rom_bank in progress: [pc, banknum]
    emu,                \* Emulator: play state, vblank countdown, clock, tick in progress
    cpu,                \* Emulator.cpu: interrupt lines and execution state
    acp,                \* Emulator.acp and Emulator.acp_bus.irq_counter
    bus,                \* CpuBus: RAM banks, ACP and audio registers, gamepads, cartridge kind
    aram,               \* gte_acp::ARAM: the non-zero cells of the shared audio RAM
    count,              \* cycles and interrupts since the machine was built
    audio               \* Emulator.audio_out and target_sample_rate, with what was pushed and heard

vars == <<blit, regs, dma_flags, banking_register, framebuffers, vram_banks,
          vram_quad_written, data, bank_shifter, bank_mask, flash, ticks, quiet, wlog, last, ops,
          via_regs, sdk, emu, cpu, acp, bus, aram, count, audio>>

busVars == <<blit, regs, dma_flags, banking_register, framebuffers, vram_banks,
             vram_quad_written, ticks, quiet, wlog>>

cartVars == <<data, bank_shifter, bank_mask, flash>>

viaVars == <<via_regs, sdk>>

emuVars == <<emu, cpu, acp, bus, aram, count, audio>>

----------------------------------------------------------------------------
(* Bounds of the model.                                                    *)

\* bus accesses (CPU reads and writes) in one behaviour
MaxOps == 2

\* cartridge writes in one behaviour of the flash specification
MaxCartWrites == 3

----------------------------------------------------------------------------
(* u8 arithmetic.                                                          *)

Byte == 0..255

Bit(b, k) == (b \div (2 ^ k)) % 2 = 1

\* !x on a u8
Not8(x) == 255 - x

wrapping_add(a, b) == (a + b) % 256

wrapping_sub(a, b) == (a - b + 256) % 256

\* a & b on u8
And8(a, b) ==
    LET bitv(k) == IF Bit(a, k) /\ Bit(b, k) THEN 2 ^ k ELSE 0
    IN  bitv(0) + bitv(1) + bitv(2) + bitv(3) + bitv(4) + bitv(5) + bitv(6) + bitv(7)

----------------------------------------------------------------------------
(* The flag registers (reg_etc.rs is the emulator's bitfield of the        *)
(* hardware registers the SDK names in scr.rs).                            *)

dma_enable(f)           == Bit(f, 0)
dma_page_out(f)         == IF Bit(f, 1) THEN 1 ELSE 0
dma_nmi(f)              == Bit(f, 2)
dma_colorfill_enable(f) == Bit(f, 3)
dma_gcarry(f)           == Bit(f, 4)
dma_cpu_to_vram(f)      == Bit(f, 5)
dma_irq(f)              == Bit(f, 6)
dma_opaque(f)           == Bit(f, 7)

vram_page(b)   == b % 8
framebuffer(b) == IF Bit(b, 3) THEN 1 ELSE 0

get_framebuffer_out(f) == dma_page_out(f)

\* a map that tests the CPU-to-VRAM bit first
get_graphics_memory_map_c2v_first(f) ==
    IF dma_cpu_to_vram(f) THEN "FrameBuffer"
    ELSE IF dma_enable(f) THEN "BlitterRegisters"
    ELSE "VRAM"

get_graphics_memory_map(f) ==
    IF dma_enable(f) THEN "BlitterRegisters"
    ELSE IF dma_cpu_to_vram(f) THEN "FrameBuffer"
    ELSE "VRAM"

----------------------------------------------------------------------------
(* Framebuffers and VRAM. A framebuffer is 128*128 bytes; the model keeps  *)
(* the cells that differ from the byte the buffer was created with.        *)

FbSize == 128

new_framebuffer_fill(fb) == IF fb = 0 THEN 0 ELSE 255

FbGet(fbs, fb, i) ==
    IF i \in DOMAIN fbs[fb] THEN fbs[fb][i] ELSE new_framebuffer_fill(fb)

FbSet(fbs, fb, i, v) ==
    LET old  == fbs[fb]
        keep == IF v = new_framebuffer_fill(fb)
                THEN DOMAIN old \ {i} ELSE DOMAIN old \cup {i}
    IN  [fbs EXCEPT ![fb] = [j \in keep |-> IF j = i THEN v ELSE old[j]]]

\* the buffer handed to the display
\* a reader that is always given buffer 0
read_full_framebuffer_first(f) == 0

\* CpuBus::read_full_framebuffer: the index of the buffer returned
read_full_framebuffer(f) == get_framebuffer_out(f)

VramGet(vr, page, i) == IF <<page, i>> \in DOMAIN vr THEN vr[<<page, i>>] ELSE 0

VramSet(vr, page, i, v) ==
    LET keep == IF v = 0 THEN DOMAIN vr \ {<<page, i>>}
                ELSE DOMAIN vr \cup {<<page, i>>}
    IN  [k \in keep |-> IF k = <<page, i>> THEN v ELSE vr[k]]

vram_quadrant(r) ==
    (IF r.gx >= 128 THEN 1 ELSE 0) + (IF r.gy >= 128 THEN 2 ELSE 0)

----------------------------------------------------------------------------
(* Blitter::default and CpuBus::default.                                   *)

BlitterDefault ==
    [src_y |-> 0, dst_y |-> 0, height |-> 0, flip_y |-> FALSE,
     src_x |-> 0, dst_x |-> 0, width |-> 0, flip_x |-> FALSE,
     offset_x |-> 0, offset_y |-> 0, color_fill |-> FALSE, color |-> 0,
     blitting |-> FALSE, cycles |-> 0, irq_trigger |-> FALSE]

BlitterRegistersDefault ==
    [vx |-> 0, vy |-> 0, gx |-> 0, gy |-> 0, width |-> 127, height |-> 127,
     start |-> [write |-> 0, addressed |-> FALSE], color |-> 160]

DmaFlagsDefault == 127

\* via_regs: [0; 16]
ViaRegsDefault == [register \in 0..15 |-> 0]

\* no bank change in progress
SdkIdle == [running |-> FALSE, pc |-> 0, banknum |-> 0]

\* Emulator::init, the fields the model keeps; times are in microseconds
EmulatorInit ==
    [play_state |-> "WasmInit", clock_cycles_to_vblank |-> 59659,
     last_emu_tick |-> 0, now |-> 0,
     in_loop |-> FALSE, remaining_cycles |-> 0, acp_cycle_accumulator |-> 0,
     input_state |-> <<>>]

\* W65C02S::new
CpuNew == [state |-> "Reset", irq |-> FALSE, nmi |-> FALSE]

\* W65C02S::new and AcpBus::default
AcpNew == [state |-> "Reset", irq |-> FALSE, nmi |-> FALSE, irq_counter |-> 0, sample |-> 0]

\* Emulator::init as the application calls it: target_sample_rate in Hz
TARGET_SAMPLE_RATE == 48000

\* Emulator::init, audio_out: None; target is target_sample_rate in Hz.
\* pushes, dropped and heard record what the producer offered and what the
\* consumer returned: pushes are numbered from 1, a silence is heard as 0.
AudioOutNone(target) ==
    [open |-> FALSE, sample_rate |-> 0, ring |-> <<>>, interpolation_value |-> 0,
     target_sample_rate |-> target, pushes |-> 0, dropped |-> 0, heard |-> <<>>]

GamePadDefault == [pressed |-> {}, port_select |-> FALSE]

\* CpuBus::default, the fields not kept in variables of their own
CpuBusDefault ==
    [reset_acp |-> 0, nmi_acp |-> 0, audio_enable_sample_rate |-> 0,
     gamepads |-> <<GamePadDefault, GamePadDefault>>,
     ram_banks |-> <<>>, cartridge |-> "Cart8k"]

AramDefault == <<>>

CountZero ==
    [cpu |-> 0, blitter |-> 0, acp |-> 0, audio_cpu |-> 0, nmi |-> 0,
     pending |-> FALSE, ticks |-> 0, inputs |-> 0, vblank |-> 0]

\* an emulator that has been built, holds a 2MB cartridge and has not ticked
EmulatorAtRest ==
    /\ emu = EmulatorInit
    /\ cpu = [CpuNew EXCEPT !.state = "Running"]
    /\ acp = AcpNew
    /\ bus = [CpuBusDefault EXCEPT !.cartridge = "Cart2m"]
    /\ aram = AramDefault
    /\ count = CountZero
    /\ audio = AudioOutNone(TARGET_SAMPLE_RATE)

----------------------------------------------------------------------------
(* Blitter::cycle, in the order of the code.                               *)

\* BlitStart::read_once: (data, addressed); the register is cleared by the read
read_once(r) == [data |-> r.start.write % 2 = 1, addressed |-> r.start.addressed]

start_cleared(r) == [r EXCEPT !.start = [write |-> 0, addressed |-> FALSE]]

\* lines 60-62: any access to the start register drops the completion flag
ClearIrq(b, addressed) ==
    IF addressed THEN [b EXCEPT !.irq_trigger = FALSE] ELSE b

\* a latch that does not look at the engine's state
LatchStartAlways(b, r, f, bit_start) ==
    IF bit_start
    THEN [b EXCEPT !.src_y = r.gy, !.dst_y = r.vy,
                   !.height = r.height % 128, !.flip_y = r.height >= 128,
                   !.color = Not8(r.color),
                   !.color_fill = dma_colorfill_enable(f),
                   !.blitting = TRUE, !.cycles = 0,
                   !.src_x = r.gx, !.dst_x = r.vx,
                   !.width = r.width % 128, !.flip_x = r.width >= 128]
    ELSE b

\* lines 65-90: the start latch
LatchStart(b, r, f, bit_start) ==
    IF ~b.blitting /\ bit_start
    THEN [b EXCEPT !.src_y = r.gy, !.dst_y = r.vy,
                   !.height = r.height % 128, !.flip_y = r.height >= 128,
                   !.color = Not8(r.color),
                   !.color_fill = dma_colorfill_enable(f),
                   !.blitting = TRUE, !.cycles = 0,
                   !.src_x = r.gx, !.dst_x = r.vx,
                   !.width = r.width % 128, !.flip_x = r.width >= 128]
    ELSE b

\* lines 97-102: the Y parameters are sampled again at the start of a line
\* the Y-axis parameters sampled wherever the cursor is
RelatchYAlways(b, r) ==
    [b EXCEPT !.src_y = r.gy, !.dst_y = r.vy,
              !.height = r.height % 128, !.flip_y = r.height >= 128]

RelatchY(b, r) ==
    IF b.offset_x = 0
    THEN [b EXCEPT !.src_y = r.gy, !.dst_y = r.vy,
                   !.height = r.height % 128, !.flip_y = r.height >= 128]
    ELSE b

\* lines 104-107: end of a line
\* a line that ends one pixel late
WrapLineLate(b) ==
    IF b.offset_x > b.width
    THEN [b EXCEPT !.offset_x = 0, !.offset_y = @ + 1]
    ELSE b

WrapLine(b) ==
    IF b.offset_x >= b.width
    THEN [b EXCEPT !.offset_x = 0, !.offset_y = @ + 1]
    ELSE b

\* a completion that raises no interrupt
CompleteNoIrq(b, f) == [b EXCEPT !.offset_y = 0, !.blitting = FALSE]

\* lines 109-119: end of the blit
Complete(b, f) ==
    [b EXCEPT !.offset_y = 0, !.blitting = FALSE,
              !.irq_trigger = IF dma_irq(f) THEN TRUE ELSE @]

\* a skipped pixel that does not move the cursor
SkipPixelStall(b) == b

\* lines 125-129: DMA disabled, the counters run on
SkipPixel(b) == [b EXCEPT !.offset_x = @ + 1]

\* lines 139-163: the source coordinate of one axis
SourceCoord(src, offset, flip, gcarry) ==
    LET src_mod == IF flip THEN Not8(src) ELSE src
    IN  IF ~gcarry THEN wrapping_add(src_mod, offset % 16)
        ELSE IF flip THEN wrapping_sub(src_mod, offset)
        ELSE wrapping_add(src_mod, offset)

\* lines 165-173: the VRAM index of a source coordinate
\* a page laid out as 256 rows of 256 bytes
SourceIndexRows(x, y) == x + y * 256

SourceIndex(x, y) ==
    x + y * 128 + (IF x >= 128 THEN 128 * 128 - 128 ELSE 0)
                + (IF y >= 128 THEN 128 * 128 ELSE 0)

\* a colour that is always read from VRAM
NextColorFromVram(b, f, bank, vr) ==
    VramGet(vr, vram_page(bank),
            SourceIndex(SourceCoord(b.src_x, b.offset_x, b.flip_x, dma_gcarry(f)),
                        SourceCoord(b.src_y, b.offset_y, b.flip_y, dma_gcarry(f))))

\* lines 132-174: the colour of the next pixel
NextColor(b, f, bank, vr) ==
    IF b.color_fill THEN b.color
    ELSE VramGet(vr, vram_page(bank),
                 SourceIndex(SourceCoord(b.src_x, b.offset_x, b.flip_x, dma_gcarry(f)),
                             SourceCoord(b.src_y, b.offset_y, b.flip_y, dma_gcarry(f))))

\* the displayed buffer as the blit's target
OutFbFront(f) == get_framebuffer_out(f)

\* lines 178-182: the buffer the engine writes
OutFb(f) == IF get_framebuffer_out(f) = 1 THEN 0 ELSE 1

\* a pixel write without the bounds test
PixelWriteNoClip(b, f, bank, vr) ==
    LET color == NextColor(b, f, bank, vr)
        out_x == wrapping_add(b.dst_x, b.offset_x)
        out_y == wrapping_add(b.dst_y, b.offset_y)
    IN  IF dma_opaque(f) \/ color # 0
        THEN {<<OutFb(f), (out_x + out_y * 128) % (FbSize * FbSize), color>>}
        ELSE {}

\* lines 176-192: the framebuffer write of this cycle, as a set of
\* <<buffer, index, colour>> with at most one element
PixelWrite(b, f, bank, vr) ==
    LET color == NextColor(b, f, bank, vr)
        out_x == wrapping_add(b.dst_x, b.offset_x)
        out_y == wrapping_add(b.dst_y, b.offset_y)
    IN  IF out_x >= FbSize \/ out_y >= FbSize THEN {}
        ELSE IF dma_opaque(f) \/ color # 0
             THEN {<<OutFb(f), out_x + out_y * 128, color>>}
        ELSE {}

\* lines 185, 195
AdvanceX(b) == [b EXCEPT !.offset_x = wrapping_add(@, 1)]

\* One engine cycle: the engine after it, the framebuffer write it makes, and
\* whether it latched a start.
Cycle(b, r, f, bank, vr) ==
    LET ro == read_once(r)
        b1 == ClearIrq(b, ro.addressed)
        b2 == LatchStart(b1, r, f, ro.data)
        latched == ~b1.blitting /\ b2.blitting
    IN  IF ~b2.blitting
        THEN [blitter |-> b2, write |-> {}, latched |-> latched]
        ELSE LET b3 == WrapLine(RelatchY(b2, r))
             IN  IF b3.offset_y >= b3.height
                 THEN [blitter |-> Complete(b3, f), write |-> {}, latched |-> latched]
                 ELSE LET b4 == [b3 EXCEPT !.cycles = @ + 1]
                      IN  IF ~dma_enable(f)
                          THEN [blitter |-> SkipPixel(b4), write |-> {},
                                latched |-> latched]
                          ELSE [blitter |-> AdvanceX(b4),
                                write |-> PixelWrite(b4, f, bank, vr),
                                latched |-> latched]

ApplyWrites(fbs, ws) ==
    IF ws = {} THEN fbs
    ELSE LET w == CHOOSE x \in ws : TRUE IN FbSet(fbs, w[1], w[2], w[3])

\* The scheduler's call of Blitter::cycle (emulator.rs, the blit loop).
BlitterCycle ==
    LET c == Cycle(blit, regs, dma_flags, banking_register, vram_banks)
    IN  /\ blit' = c.blitter
        /\ regs' = start_cleared(regs)
        /\ framebuffers' = ApplyWrites(framebuffers, c.write)
        /\ ticks' = IF c.latched THEN 1
                    ELSE IF blit.blitting THEN ticks + 1 ELSE ticks
        /\ quiet' = IF c.latched THEN TRUE ELSE quiet
        /\ wlog' = IF c.latched THEN {<<w[1], w[2]>> : w \in c.write}
                   ELSE wlog \cup {<<w[1], w[2]>> : w \in c.write}
        /\ last' = [op |-> "cycle", start |-> read_once(regs), write |-> c.write,
                    latched |-> c.latched]
        /\ UNCHANGED <<dma_flags, banking_register, vram_banks, vram_quad_written,
                       ops>>
        /\ UNCHANGED cartVars
        /\ UNCHANGED viaVars
        /\ UNCHANGED emuVars


----------------------------------------------------------------------------
(* CpuBus::write_byte and CpuBus::read_byte, for the ranges the model      *)
(* covers: 0x2005, 0x2007, the window 0x4000-0x7FFF, the cartridge.        *)

BANKING_ADDR == 8197       \* 0x2005
DMA_FLAGS_ADDR == 8199     \* 0x2007
WINDOW_BASE == 16384       \* 0x4000
START_ADDR == 16390        \* 0x4006
CART_BASE == 32768         \* 0x8000

\* BlitterRegisters::write_byte
BlitterRegWrite(r, address, d) ==
    CASE address = 16384 -> [r EXCEPT !.vx = d]
      [] address = 16385 -> [r EXCEPT !.vy = d]
      [] address = 16386 -> [r EXCEPT !.gx = d]
      [] address = 16387 -> [r EXCEPT !.gy = d]
      [] address = 16388 -> [r EXCEPT !.width = d]
      [] address = 16389 -> [r EXCEPT !.height = d]
      [] address = 16390 -> [r EXCEPT !.start = [write |-> d, addressed |-> TRUE]]
      [] address = 16391 -> [r EXCEPT !.color = d]
      [] OTHER -> r

\* BlitterRegisters::read_byte
\* a read that leaves no trace in the start register
BlitterRegReadQuiet(r, address) == r

BlitterRegRead(r, address) ==
    IF address = 16390 THEN [r EXCEPT !.start.addressed = TRUE] ELSE r

\* the other buffer as the CPU's target
CpuFbOther(bank) == 1 - framebuffer(bank)

\* the buffer a CPU write reaches in framebuffer mode
CpuFb(bank) == framebuffer(bank)

\* SystemControl::write_byte, 0x2005 and 0x2007
SystemControlWrite(address, d) ==
    /\ address \in {BANKING_ADDR, DMA_FLAGS_ADDR}
    /\ banking_register' = IF address = BANKING_ADDR THEN d ELSE banking_register
    /\ dma_flags' = IF address = DMA_FLAGS_ADDR THEN d ELSE dma_flags
    /\ UNCHANGED <<regs, framebuffers, vram_banks, vram_quad_written>>

\* the VRAM byte a window address stands for:
\* address - 0x4000 + quadrant * (128 * 128)
VramWindowIndex(r, address) ==
    address - WINDOW_BASE + vram_quadrant(r) * (128 * 128)

\* CpuBus::write_byte, 0x4000..=0x7FFF
WindowWrite(address, d) ==
    /\ address \in WINDOW_BASE..(CART_BASE - 1)
    /\ LET map == get_graphics_memory_map(dma_flags)
           page == vram_page(banking_register)
           quadrant == vram_quadrant(regs)
       IN  /\ framebuffers' =
                 IF map = "FrameBuffer"
                 THEN FbSet(framebuffers, CpuFb(banking_register),
                            address - WINDOW_BASE, d)
                 ELSE framebuffers
           /\ vram_banks' =
                 IF map = "VRAM"
                 THEN VramSet(vram_banks, page, VramWindowIndex(regs, address), d)
                 ELSE vram_banks
           /\ vram_quad_written' =
                 IF map = "VRAM"
                 THEN vram_quad_written \cup {quadrant + page * 4}
                 ELSE vram_quad_written
           /\ regs' = IF map = "BlitterRegisters"
                      THEN BlitterRegWrite(regs, address, d) ELSE regs
    /\ UNCHANGED <<dma_flags, banking_register>>

\* A CPU store to the bus, outside the cartridge.
BusWrite(address, d) ==
    /\ ops < MaxOps
    /\ \/ SystemControlWrite(address, d)
       \/ WindowWrite(address, d)
    /\ ops' = ops + 1
    /\ quiet' = FALSE
    /\ last' = [op |-> "write", address |-> address, data |-> d]
    /\ UNCHANGED <<blit, ticks, wlog>>
    /\ UNCHANGED cartVars
    /\ UNCHANGED viaVars
    /\ UNCHANGED emuVars

\* CpuBus::read_byte, 0x4000..=0x7FFF: the byte returned
WindowRead(address) ==
    LET map == get_graphics_memory_map(dma_flags)
    IN  CASE map = "FrameBuffer" ->
                FbGet(framebuffers, framebuffer(banking_register),
                      address - WINDOW_BASE)
          [] map = "VRAM" ->
                VramGet(vram_banks, vram_page(banking_register),
                        VramWindowIndex(regs, address))
          [] OTHER -> 0

\* A CPU load from the window.
BusRead(address) ==
    /\ ops < MaxOps
    /\ address \in WINDOW_BASE..(CART_BASE - 1)
    /\ regs' = IF get_graphics_memory_map(dma_flags) = "BlitterRegisters"
               THEN BlitterRegRead(regs, address) ELSE regs
    /\ ops' = ops + 1
    /\ quiet' = FALSE
    /\ last' = [op |-> "read", address |-> address, data |-> WindowRead(address)]
    /\ UNCHANGED <<blit, dma_flags, banking_register, framebuffers, vram_banks,
                   vram_quad_written, ticks, wlog>>
    /\ UNCHANGED cartVars
    /\ UNCHANGED viaVars
    /\ UNCHANGED emuVars

----------------------------------------------------------------------------
(* The 2MB flash cartridge (cartridges/cart2mj21.rs).                      *)

BLOCK_LENGTHS ==
    [i \in 1..35 |-> IF i <= 31 THEN 65536
                     ELSE IF i = 32 THEN 32768
                     ELSE IF i = 35 THEN 16384 ELSE 8192]

NumBlocks == 35
NumBanks == 128
BANK_SIZE == 16384
TOTAL_SIZE == BANK_SIZE * 128

\* BLOCK_LENGTHS[block] of the code, whose blocks count from 0
BlockLength(block) == BLOCK_LENGTHS[block + 1]

\* one pass of the while loop of generate_block_mappings over its state
\* (bank_index, block_index, offset_in_block); the loop has ended when its
\* condition fails
BlockMappingStep(s) ==
    IF ~(s.bank_index < NumBanks /\ s.block_index < NumBlocks) THEN s
    ELSE IF s.offset_in_block + BANK_SIZE >= BlockLength(s.block_index)
    THEN [bank_index |-> s.bank_index + 1, block_index |-> s.block_index + 1,
          offset_in_block |-> 0]
    ELSE [bank_index |-> s.bank_index + 1, block_index |-> s.block_index,
          offset_in_block |-> s.offset_in_block + BANK_SIZE]

\* n passes of the loop
RECURSIVE BlockMappingLoop(_, _)
BlockMappingLoop(n, s) ==
    IF n = 0 \/ ~(s.bank_index < NumBanks /\ s.block_index < NumBlocks) THEN s
    ELSE IF n = 1 THEN BlockMappingStep(s)
    ELSE BlockMappingLoop(n - (n \div 2), BlockMappingLoop(n \div 2, s))

\* mappings[bank] is assigned by the pass that starts with bank_index = bank
generate_block_mappings ==
    [bank \in 0..(NumBanks - 1) |->
        LET s == BlockMappingLoop(bank, [bank_index |-> 0, block_index |-> 0,
                                         offset_in_block |-> 0])
        IN  IF s.bank_index = bank /\ s.block_index < NumBlocks
            THEN [block_index |-> s.block_index, bank_offset |-> s.offset_in_block]
            ELSE [block_index |-> 0, bank_offset |-> 0]]

BLOCK_MAPPINGS == generate_block_mappings

\* Cartridge2M::bank_range
bank_range(bank) == [start |-> bank * BANK_SIZE, end |-> bank * BANK_SIZE + BANK_SIZE]

\* BLOCK_LENGTHS[..block].iter().sum()
RECURSIVE SumRange(_, _)
SumRange(lo, hi) ==
    IF lo >= hi THEN 0
    ELSE IF hi = lo + 1 THEN BlockLength(lo)
    ELSE SumRange(lo, (lo + hi) \div 2) + SumRange((lo + hi) \div 2, hi)

SumLengths(block) == SumRange(0, block)

(* The byte array. The model keeps the image the cartridge was loaded with,  *)
(* the ranges filled with 0xFF since, and the cells programmed since; a cell *)
(* outside both still holds the image's byte.                                *)
ImageByte(image, i) ==
    CASE image = "zero" -> 0
      [] image = "erased" -> 255
      [] image = "banked" -> ((i \div 16384) * 13 + i) % 256
      [] OTHER -> (i * 7 + 3) % 256

DataGet(d, i) ==
    IF i \in DOMAIN d.cells THEN d.cells[i]
    ELSE IF \E f \in d.fills : f[1] <= i /\ i < f[2] THEN 255
    ELSE ImageByte(d.image, i)

\* cartridge_data[lo..hi].fill(0xFF), for each range of a set
DataFill(d, ranges) ==
    LET hit(i) == \E f \in ranges : f[1] <= i /\ i < f[2]
        keep == {i \in DOMAIN d.cells : ~hit(i)}
    IN  [d EXCEPT !.fills = @ \cup {f \in ranges : f[1] < f[2]},
                  !.cells = [i \in keep |-> d.cells[i]]]

\* a program that stores the byte
DataStore(d, i, v) ==
    [d EXCEPT !.cells = [j \in DOMAIN d.cells \cup {i} |->
                             IF j = i THEN v ELSE d.cells[j]]]

\* cartridge_data[i] &= v
DataAnd(d, i, v) ==
    LET new == And8(DataGet(d, i), v)
    IN  [d EXCEPT !.cells = [j \in DOMAIN d.cells \cup {i} |->
                                 IF j = i THEN new ELSE d.cells[j]]]

\* FlashCommand::from_sequence: the first pattern the slice matches
from_sequence(seq) ==
    LET n == Len(seq)
        is(k, a, v) == seq[k].address = a /\ seq[k].data = v
        erase_prefix == /\ n >= 6
                        /\ is(1, 2730, 170) /\ is(2, 1365, 85) /\ is(3, 2730, 128)
                        /\ is(4, 2730, 170) /\ is(5, 1365, 85)
    IN  IF erase_prefix /\ seq[6].data = 48
        THEN [kind |-> "BlockErase", address |-> seq[6].address, data |-> 0]
        ELSE IF n >= 4 /\ is(1, 2730, 170) /\ is(2, 1365, 85) /\ is(3, 2730, 160)
        THEN [kind |-> "Program", address |-> seq[4].address, data |-> seq[4].data]
        ELSE IF n >= 3 /\ is(1, 2730, 170) /\ is(2, 1365, 85) /\ is(3, 2730, 32)
        THEN [kind |-> "UnlockBypassEnter", address |-> 0, data |-> 0]
        ELSE IF erase_prefix /\ is(6, 2730, 16)
        THEN [kind |-> "ChipErase", address |-> 0, data |-> 0]
        ELSE IF n >= 2 /\ seq[1].data = 160 /\ seq[1].address \notin {2730, 1365}
        THEN [kind |-> "UnlockBypassProgram", address |-> seq[2].address,
              data |-> seq[2].data]
        ELSE IF n >= 2 /\ seq[1].data = 144 /\ seq[2].data = 0
                /\ seq[1].address \notin {2730, 1365}
        THEN [kind |-> "UnlockBypassReset", address |-> 0, data |-> 0]
        ELSE [kind |-> "Unknown", address |-> 0, data |-> 0]

NoCommand == [kind |-> "None", address |-> 0, data |-> 0]

Min(a, b) == IF a < b THEN a ELSE b

\* FlashStateMachine::detect_command: the longest window first
RECURSIVE DetectFrom(_, _)
DetectFrom(buffer, window_size) ==
    IF window_size < 2 THEN NoCommand
    ELSE LET command == from_sequence(SubSeq(buffer, Len(buffer) - window_size + 1,
                                             Len(buffer)))
         IN  IF command.kind # "Unknown" THEN command
             ELSE DetectFrom(buffer, window_size - 1)

detect_command(buffer) ==
    LET len == Min(Len(buffer), 6)
    IN  IF len < 2 THEN NoCommand ELSE DetectFrom(buffer, len)

HistoryLimit == 6

\* a history that is never trimmed
PushInputNoDrain(buffer, address, d) ==
    Append(buffer, [address |-> address, data |-> d])

\* lines 228-233: push, and keep the last 6
PushInput(buffer, address, d) ==
    LET b == Append(buffer, [address |-> address, data |-> d])
    IN  IF Len(b) > HistoryLimit
        THEN SubSeq(b, Len(b) - HistoryLimit + 1, Len(b)) ELSE b

\* FlashStateMachine::add_input: the machine after it and the command it returns
add_input(f, address, d) ==
    LET buffer == PushInput(f.buffer, address, d)
        n == Len(buffer)
    IN  CASE f.state.kind = "Idle" ->
               LET command == detect_command(buffer)
               IN  IF command.kind # "None"
                   THEN [fsm |-> [state |-> [kind |-> "CommandExecution",
                                             command |-> command],
                                  buffer |-> buffer],
                         command |-> command]
                   ELSE [fsm |-> [f EXCEPT !.buffer = buffer], command |-> NoCommand]
          [] f.state.kind = "UnlockBypass" ->
               IF n >= 2 /\ buffer[n - 1].data = 160
               THEN LET command == [kind |-> "UnlockBypassProgram",
                                    address |-> buffer[n].address,
                                    data |-> buffer[n].data]
                    IN  [fsm |-> [state |-> [kind |-> "CommandExecution",
                                             command |-> command],
                                  buffer |-> buffer],
                         command |-> command]
               ELSE IF n >= 2 /\ buffer[n - 1].data = 144 /\ buffer[n].data = 0
               THEN [fsm |-> [state |-> [kind |-> "Idle", command |-> NoCommand],
                              buffer |-> buffer],
                     command |-> [kind |-> "UnlockBypassReset", address |-> 0,
                                  data |-> 0]]
               ELSE [fsm |-> [f EXCEPT !.buffer = buffer], command |-> NoCommand]
          [] OTHER ->
               [fsm |-> [state |-> [kind |-> "Idle", command |-> NoCommand],
                         buffer |-> buffer],
                command |-> NoCommand]

\* lines 292-308: the cell a program command changes
ProgramCell(mask, address) == bank_range(mask % 128).start + (address % 16384)

\* lines 313-352: the ranges a block erase fills
BlockEraseRanges(mask) ==
    LET current_bank == mask % 128
        target_block == BLOCK_MAPPINGS[current_bank].block_index
        block_start == SumLengths(target_block)
        block_end == block_start + BlockLength(target_block)
        start_bank == block_start \div BANK_SIZE
        end_bank == (block_end + BANK_SIZE - 1) \div BANK_SIZE
        start_offset == block_start % BANK_SIZE
        end_offset == block_end % BANK_SIZE
        fill(bank_index) ==
            LET range == bank_range(bank_index)
            IN  IF bank_index = start_bank /\ start_offset # 0
                THEN <<range.start + start_offset, range.end>>
                ELSE IF bank_index = end_bank - 1 /\ end_offset # 0
                THEN <<range.start, range.start + end_offset>>
                ELSE <<range.start, range.end>>
    IN  {fill(bank_index) : bank_index \in {b \in start_bank..(end_bank - 1) : b < 128}}

\* line 366: whatever the command left, the machine ends in Idle
FinishCommand(state) == [kind |-> "Idle", command |-> NoCommand]

\* FlashStateMachine::execute_command: the machine and the byte array after it
execute_command(f, d, mask) ==
    LET command == f.state.command
        kind == IF f.state.kind = "CommandExecution" THEN command.kind ELSE "None"
        d2 == CASE kind \in {"Program", "UnlockBypassProgram"} ->
                     DataAnd(d, ProgramCell(mask, command.address), command.data)
                [] kind = "ChipErase" -> DataFill(d, {<<0, TOTAL_SIZE>>})
                [] kind = "BlockErase" -> DataFill(d, BlockEraseRanges(mask))
                [] OTHER -> d
        \* lines 354-361, then lines 366-367
        s2 == CASE kind = "UnlockBypassEnter" ->
                     [kind |-> "UnlockBypass", command |-> NoCommand]
                [] kind = "UnlockBypassReset" -> [kind |-> "Idle", command |-> NoCommand]
                [] OTHER -> f.state
    IN  [fsm |-> [state |-> FinishCommand(s2), buffer |-> <<>>],
         data |-> d2]

\* Cartridge2M::write_byte
CartWriteResult(f, d, mask, address, v) ==
    LET a == add_input(f, address, v)
    IN  IF a.command.kind # "None"
        THEN LET e == execute_command(a.fsm, d, mask)
             IN  [fsm |-> e.fsm, data |-> e.data, command |-> a.command]
        ELSE [fsm |-> a.fsm, data |-> d, command |-> a.command]

\* CpuBus::write_byte, 0x8000..=0xFFFF, with a 2MB cartridge loaded
CartWrite(address, v) ==
    /\ ops < MaxCartWrites
    /\ address \in CART_BASE..65535
    /\ LET r == CartWriteResult(flash, data, bank_mask, address - CART_BASE, v)
       IN  /\ flash' = r.fsm
           /\ data' = r.data
           /\ last' = [op |-> "cart", address |-> address - CART_BASE, data |-> v,
                       command |-> r.command]
    /\ ops' = ops + 1
    /\ UNCHANGED <<bank_shifter, bank_mask>>
    /\ UNCHANGED busVars
    /\ UNCHANGED viaVars
    /\ UNCHANGED emuVars

\* Cartridge2M::read_byte
CartRead(d, mask, address) ==
    IF address >= 16384
    THEN DataGet(d, bank_range(127).start + (address % 16384))
    ELSE DataGet(d, bank_range(mask % 128).start + (address % 16384))

\* Cartridge2M::from_slice
CartridgeLoaded(image) ==
    /\ data = [image |-> image, fills |-> {}, cells |-> <<>>]
    /\ bank_shifter = 0
    /\ bank_mask = 126
    /\ flash = [state |-> [kind |-> "Idle", command |-> NoCommand], buffer |-> <<>>]

----------------------------------------------------------------------------
(* The inputs of the bus specification.                                    *)

\* what the CPU stores where
RegData(address) ==
    CASE address = 16384 -> {127}          \* VX
      [] address = 16385 -> {255}          \* VY
      [] address = 16386 -> {128}          \* GX
      [] address = 16387 -> {1}            \* GY
      [] address = 16388 -> {1, 131}       \* WIDTH
      [] address = 16389 -> {0, 1}         \* HEIGHT
      [] address = 16390 -> {0, 1}         \* START
      [] address = 16391 -> {0}            \* COLOR
      [] OTHER -> {}

\* 0x2007: one flag toggled (enable, page-out, colour fill, CPU-to-VRAM, IRQ, opaque)
FlagToggles(f) ==
    {IF Bit(f, k) THEN f - 2 ^ k ELSE f + 2 ^ k : k \in {0, 1, 3, 5, 6, 7}}

CpuWrite ==
    \/ \E address \in 16384..16391 : \E d \in RegData(address) : BusWrite(address, d)
    \/ \E d \in FlagToggles(dma_flags) : BusWrite(DMA_FLAGS_ADDR, d)
    \/ \E d \in {0, 8} : BusWrite(BANKING_ADDR, d)

CpuRead == BusRead(START_ADDR)

InitWidths == {0, 2}
InitHeights == {0, 2}
InitVx == {0, 127}
InitColors == {160, 255}
InitFlags == {127, 126, 119}
InitVram == {<<>>, (<<0, 0>> :> 7)}

Init ==
    /\ blit = BlitterDefault
    /\ \E w \in InitWidths, h \in InitHeights, x \in InitVx, c \in InitColors :
          regs = [BlitterRegistersDefault EXCEPT
                     !.width = w, !.height = h, !.vx = x, !.color = c]
    /\ dma_flags \in InitFlags
    /\ banking_register = 0
    /\ framebuffers = [fb \in 0..1 |-> <<>>]
    /\ vram_banks \in InitVram
    /\ vram_quad_written = {}
    /\ CartridgeLoaded("zero")
    /\ ticks = 0
    /\ quiet = FALSE
    /\ wlog = {}
    /\ last = [op |-> "init"]
    /\ ops = 0
    /\ via_regs = ViaRegsDefault
    /\ sdk = SdkIdle
    /\ EmulatorAtRest

Next ==
    \/ CpuWrite
    \/ CpuRead
    \/ BlitterCycle

Spec == Init /\ [][Next]_vars


----------------------------------------------------------------------------
(* The flash specification: a 2MB cartridge and the CPU's stores to it.    *)

W(address, d) == [address |-> address, data |-> d]

\* histories the machine holds in Idle after the first writes of a command
InitBuffers ==
    {<<>>,
     <<W(2730, 170), W(1365, 85)>>,
     <<W(2730, 170), W(1365, 85), W(2730, 128), W(2730, 170), W(1365, 85)>>}

\* bank masks the peripheral interface has latched
InitBanks == {0, 3, 125, 126, 127, 255}

InitImages == {"erased", "ramp"}

\* the stores of the flash protocol, and stores of other bytes elsewhere
CartInputs ==
    {W(2730, 170), W(1365, 85), W(2730, 160), W(2730, 128), W(2730, 16),
     W(2730, 32), W(291, 48), W(291, 160), W(291, 144), W(291, 0),
     W(291, 15), W(24581, 240)}

FlashInit ==
    /\ blit = BlitterDefault
    /\ regs = BlitterRegistersDefault
    /\ dma_flags = DmaFlagsDefault
    /\ banking_register = 0
    /\ framebuffers = [fb \in 0..1 |-> <<>>]
    /\ vram_banks = <<>>
    /\ vram_quad_written = {}
    /\ \E image \in InitImages :
          data = [image |-> image, fills |-> {}, cells |-> <<>>]
    /\ bank_shifter = 0
    /\ bank_mask \in InitBanks
    /\ \E b \in InitBuffers :
          flash = [state |-> [kind |-> "Idle", command |-> NoCommand], buffer |-> b]
    /\ ticks = 0
    /\ quiet = FALSE
    /\ wlog = {}
    /\ last = [op |-> "init"]
    /\ ops = 0
    /\ via_regs = ViaRegsDefault
    /\ sdk = SdkIdle
    /\ EmulatorAtRest

CpuCartWrite == \E w \in CartInputs : CartWrite(CART_BASE + w.address, w.data)

FlashNext == CpuCartWrite

SpecFlash == FlashInit /\ [][FlashNext]_vars


----------------------------------------------------------------------------
(* The run specification: blits that run from the start write to the end   *)
(* with no other bus access, over many rectangles.                         *)

RunWidths == {0, 1, 3, 10}
RunHeights == {0, 1, 2, 10}
RunVx == {0, 118, 126, 250}
RunVy == {0, 118, 127, 254}
RunColors == {160, 255}
\* DMA enabled in all; transparent fill to page 0 and to page 1, opaque fill,
\* fill without the completion IRQ, transparent copy
RunFlags == {127, 125, 253, 61, 117}

RunInit ==
    /\ blit = BlitterDefault
    /\ \E w \in RunWidths, h \in RunHeights, x \in RunVx, y \in RunVy,
          c \in RunColors :
          regs = [BlitterRegistersDefault EXCEPT
                     !.width = w, !.height = h, !.vx = x, !.vy = y, !.color = c]
    /\ dma_flags \in RunFlags
    /\ banking_register = 0
    /\ framebuffers = [fb \in 0..1 |-> <<>>]
    /\ vram_banks \in (IF dma_colorfill_enable(dma_flags) THEN {<<>>} ELSE InitVram)
    /\ vram_quad_written = {}
    /\ CartridgeLoaded("zero")
    /\ ticks = 0
    /\ quiet = FALSE
    /\ wlog = {}
    /\ last = [op |-> "init"]
    /\ ops = 0
    /\ via_regs = ViaRegsDefault
    /\ sdk = SdkIdle
    /\ EmulatorAtRest

StartWrite == BusWrite(START_ADDR, 1)

RunNext ==
    \/ StartWrite
    \/ BlitterCycle

SpecRun == RunInit /\ [][RunNext]_vars


----------------------------------------------------------------------------
(* The blitter's start protocol.                                           *)

LatchedParams(b) ==
    <<b.src_x, b.src_y, b.dst_x, b.dst_y, b.width, b.height, b.flip_x, b.flip_y,
      b.color, b.color_fill>>

IdleAtOrigin == ~blit.blitting => (blit.offset_x = 0 /\ blit.offset_y = 0)

IsCycle == last'.op = "cycle"

StartProtocolStep ==
    /\ IdleAtOrigin'
       \* leaves Idle only on a cycle that sees a start write with bit 0 set
    /\ (~blit.blitting /\ blit'.blitting) =>
          /\ IsCycle
          /\ regs.start.write % 2 = 1
          /\ blit.offset_x = 0 /\ blit.offset_y = 0
       \* returns to Idle only on a cycle where offset_y has reached the height
    /\ (blit.blitting /\ ~blit'.blitting) =>
          /\ IsCycle
          /\ (IF blit.offset_x >= blit.width THEN blit.offset_y + 1
              ELSE blit.offset_y) >= blit'.height
       \* a cycle consumes the start write
    /\ IsCycle => regs'.start = [write |-> 0, addressed |-> FALSE]
       \* only a cycle changes the engine
    /\ ~IsCycle => blit' = blit
       \* a start write seen while Blitting neither restarts nor re-latches
    /\ (IsCycle /\ blit.blitting /\ regs.start.write % 2 = 1) =>
          /\ LatchedParams(blit') = LatchedParams(blit)
          /\ blit'.cycles >= blit.cycles
          /\ [blit' EXCEPT !.irq_trigger = FALSE]
               = [Cycle(blit, start_cleared(regs), dma_flags, banking_register,
                        vram_banks).blitter EXCEPT !.irq_trigger = FALSE]

\* C1: the engine leaves Idle only on a cycle that observes a start write with
\* bit 0 set, returns to Idle only on a cycle where offset_y has reached the
\* latched height, is at cursor (0,0) whenever Idle, consumes a start write on
\* the first cycle that observes it, and ignores a start write while Blitting.
C1_StartProtocol == IdleAtOrigin /\ [][StartProtocolStep]_vars

\* a cycle has just observed a start write (bit 0 set) while Blitting
C1_Witness ==
    /\ last.op = "cycle" /\ last.start.data /\ ~last.latched
    /\ blit.blitting /\ ticks >= 2

----------------------------------------------------------------------------
(* The pixels of a blit that ran without any bus access.                   *)

\* the blit latched last has ended, and no bus access happened since its start
QuietDone == quiet /\ ~blit.blitting

Rect(b) == (0..(b.width - 1)) \X (0..(b.height - 1))

\* the value of pixel (i, j) of a blit that does not flip, with graphics carry
PixelValue(b, i, j) ==
    IF b.color_fill THEN b.color
    ELSE VramGet(vram_banks, banking_register % 8,
                 ((b.src_x + i) % 256) + ((b.src_y + j) % 256) * 128
                    + (IF (b.src_x + i) % 256 >= 128 THEN 16256 ELSE 0)
                    + (IF (b.src_y + j) % 256 >= 128 THEN 16384 ELSE 0))

BackBuffer == 1 - get_framebuffer_out(dma_flags)

\* (dst_x + i, dst_y + j) without the coordinates >= 128
LinearCells(b) ==
    {<<BackBuffer, (b.dst_x + p[1]) + (b.dst_y + p[2]) * 128>> :
        p \in {q \in Rect(b) : b.dst_x + q[1] < 128 /\ b.dst_y + q[2] < 128}}

\* the same with u8 coordinates, and without the transparent pixels
WrappedCells(b) ==
    {<<BackBuffer, ((b.dst_x + p[1]) % 256) + ((b.dst_y + p[2]) % 256) * 128>> :
        p \in {q \in Rect(b) :
                  /\ (b.dst_x + q[1]) % 256 < 128
                  /\ (b.dst_y + q[2]) % 256 < 128
                  /\ (dma_opaque(dma_flags) \/ PixelValue(b, q[1], q[2]) # 0)}}

NoFlipCarry ==
    /\ ~blit.flip_x /\ ~blit.flip_y
    /\ dma_gcarry(dma_flags) /\ dma_enable(dma_flags)

\* C2 as stated: the written pixels are exactly the width*height coordinates
\* (dst_x + i, dst_y + j) minus those with a coordinate >= 128.
C2_Original == (QuietDone /\ NoFlipCarry) => wlog = LinearCells(blit)

\* C2, amended: for width >= 1 the written pixels are exactly the coordinates
\* ((dst_x + i) mod 256, (dst_y + j) mod 256) below 128 on both axes whose pixel
\* is non-zero or drawn with the opaque flag set; nothing else is written.
C2_WrittenPixels ==
    (QuietDone /\ NoFlipCarry /\ blit.width >= 1) => wlog = WrappedCells(blit)

\* a blit whose destination wraps past 255 has ended and has written pixels on
\* both sides of the wrap
C2_Witness ==
    /\ QuietDone /\ NoFlipCarry /\ blit.width = 10 /\ blit.dst_x = 250
    /\ \E c \in wlog : c[2] % 128 = 3


----------------------------------------------------------------------------
(* A 10 x 10 colour fill.                                                  *)

Fill10 ==
    /\ quiet /\ blit.width = 10 /\ blit.height = 10
    /\ blit.color_fill /\ dma_enable(dma_flags)
    /\ blit.dst_x + 10 <= FbSize /\ blit.dst_y + 10 <= FbSize

\* the fill colour is the complement of the colour register
FillColour == 255 - regs.color

RectFilled ==
    \A i \in 0..9 : \A j \in 0..9 :
        FbGet(framebuffers, BackBuffer,
              (blit.dst_x + i) + (blit.dst_y + j) * FbSize) = FillColour

\* C3 as stated: 100 cycles after the start of a 10 x 10 colour fill, every
\* byte of the rectangle in the back framebuffer equals the fill colour.
C3_Original == (Fill10 /\ ticks = 100) => RectFilled

\* C3, amended: the same when the fill colour is non-zero or the opaque flag is
\* set (a zero fill colour without the opaque flag writes nothing).
C3_FillRect ==
    (Fill10 /\ ticks = 100 /\ (FillColour # 0 \/ dma_opaque(dma_flags)))
        => RectFilled

\* the 100th cycle of a fill of a rectangle away from the origin, into
\* framebuffer 1, has just run
C3_Witness ==
    /\ Fill10 /\ ticks = 100 /\ blit.dst_x = 118 /\ blit.dst_y = 118
    /\ FillColour = 95 /\ BackBuffer = 1
    /\ FbGet(framebuffers, 1, 127 + 127 * FbSize) = 95

Blit10 == quiet /\ blit.width = 10 /\ blit.height = 10

IdleWithIrq == ~blit.blitting /\ (dma_irq(dma_flags) => blit.irq_trigger)

\* C4 as stated: after the start of a 10 x 10 blit and exactly 100 cycles the
\* engine is Idle and, if the IRQ-enable flag is set, irq_trigger is set.
C4_Original == (Blit10 /\ ticks = 100) => IdleWithIrq

\* C4, amended: the 100 cycles write the 100 pixels and leave the engine
\* Blitting with the cursor at (10, 9); the 101st cycle makes it Idle and, if
\* the IRQ-enable flag is set, sets irq_trigger.
C4_Completion ==
    /\ (Blit10 /\ ticks = 100) =>
          (blit.blitting /\ blit.offset_x = 10 /\ blit.offset_y = 9
             /\ ~blit.irq_trigger)
    /\ (Blit10 /\ ticks = 101) => IdleWithIrq

\* the 101st cycle of a 10 x 10 blit has raised the completion interrupt
C4_Witness ==
    /\ Blit10 /\ ticks = 101 /\ last.op = "cycle" /\ last.write = {}
    /\ dma_irq(dma_flags) /\ blit.irq_trigger /\ ~blit.blitting

----------------------------------------------------------------------------
(* DMA disabled in the middle of a blit.                                   *)

\* the number of cycles from the start cycle to the one that ends the blit
BlitLength(w, h) == IF h = 0 THEN 1 ELSE IF w = 0 THEN h ELSE w * h + 1

EnabledFlags(f) == IF dma_enable(f) THEN f ELSE f + 1

DisabledStep ==
    /\ (IsCycle /\ blit.blitting /\ ~dma_enable(dma_flags)) =>
          /\ framebuffers' = framebuffers
          /\ last'.write = {}
          /\ blit' = Cycle(blit, regs, EnabledFlags(dma_flags), banking_register,
                           vram_banks).blitter
          /\ (blit'.blitting =>
                 \/ blit'.offset_x = blit.offset_x + 1 /\ blit'.offset_y = blit.offset_y
                 \/ blit'.offset_x = 1 /\ blit'.offset_y = blit.offset_y + 1)
    /\ (IsCycle /\ blit.blitting /\ ~blit'.blitting) =>
          ticks' = BlitLength(blit'.width, blit'.height)

\* C5: a cycle of a blit in progress with the DMA-enable flag cleared advances
\* the cursor exactly as with DMA enabled and writes no framebuffer byte, and
\* the blit returns to Idle after the same number of cycles.
C5_DmaDisabled == [][DisabledStep]_vars

\* a blit that was started with DMA enabled has ended with DMA disabled
C5_Witness ==
    /\ last.op = "cycle" /\ ~blit.blitting /\ blit.irq_trigger
    /\ ~dma_enable(dma_flags) /\ ~quiet
    /\ ticks = 5 /\ wlog # {} /\ Cardinality(wlog) < 4

----------------------------------------------------------------------------
(* The buffer the blitter writes.                                          *)

Displayed == read_full_framebuffer(dma_flags)

ChangedCells(fb) ==
    {i \in DOMAIN framebuffers[fb] \cup DOMAIN framebuffers'[fb] :
        FbGet(framebuffers', fb, i) # FbGet(framebuffers, fb, i)}

BlitWriteStep ==
    IsCycle =>
       /\ ChangedCells(Displayed) = {}
       /\ Cardinality(last'.write) <= 1
       /\ ChangedCells(1 - Displayed) \subseteq {w[2] : w \in last'.write}
       /\ \A w \in last'.write :
             /\ w[1] = 1 - Displayed
             /\ w[2] \in 0..(FbSize * FbSize - 1)
             /\ (w[3] # 0 \/ dma_opaque(dma_flags))
             /\ FbGet(framebuffers', w[1], w[2]) = w[3]

\* C6: every pixel the blitter writes goes to the back framebuffer, never to
\* the one read_full_framebuffer returns on that cycle, also when the page-out
\* flag is toggled in the middle of a blit; the index is inside the 128 x 128
\* buffer, and a pixel is written only if it is non-zero or the opaque flag is
\* set.
C6_BackBufferOnly == [][BlitWriteStep]_vars

\* the page-out flag was toggled in the middle of a blit: the blit has written
\* pixels into both buffers
C6_Witness ==
    /\ last.op = "cycle" /\ last.write # {}
    /\ \E a \in wlog : \E c \in wlog : a[1] # c[1]

----------------------------------------------------------------------------
(* The buffer the CPU writes.                                              *)

IsFbWrite ==
    /\ last'.op = "write"
    /\ last'.address \in WINDOW_BASE..(CART_BASE - 1)
    /\ get_graphics_memory_map(dma_flags) = "FrameBuffer"

\* C7 as stated: a CPU write through the window in framebuffer mode lands in
\* the back buffer and never modifies the buffer read_full_framebuffer returns.
C7_Original ==
    [][IsFbWrite =>
          /\ FbGet(framebuffers', 1 - Displayed, last'.address - WINDOW_BASE)
                = last'.data
          /\ framebuffers'[Displayed] = framebuffers[Displayed]]_vars

\* C7, amended: the write lands in the buffer selected by bit 3 of the banking
\* register and leaves the other buffer unchanged; that buffer is the displayed
\* one whenever bit 3 equals the page-out flag.
C7_CpuBuffer ==
    [][IsFbWrite =>
          LET sel == IF Bit(banking_register, 3) THEN 1 ELSE 0
          IN  /\ FbGet(framebuffers', sel, last'.address - WINDOW_BASE)
                    = last'.data
              /\ ChangedCells(sel) \subseteq {last'.address - WINDOW_BASE}
              /\ framebuffers'[1 - sel] = framebuffers[1 - sel]]_vars

\* a CPU write has just changed a byte of the displayed buffer
C7_Witness ==
    /\ last.op = "write" /\ last.address \in WINDOW_BASE..(CART_BASE - 1)
    /\ get_graphics_memory_map(dma_flags) = "FrameBuffer"
    /\ Bit(banking_register, 3) = (get_framebuffer_out(dma_flags) = 1)
    /\ last.data # new_framebuffer_fill(get_framebuffer_out(dma_flags))
    /\ FbGet(framebuffers, get_framebuffer_out(dma_flags),
             last.address - WINDOW_BASE) = last.data


----------------------------------------------------------------------------
(* The flash commands, stated over the writes the cartridge has received.  *)

IsCartWrite == last'.op = "cart"

\* the history with the write being made
Received == Append(flash.buffer, W(last'.address, last'.data))

EndsWith(h, tail) ==
    /\ Len(h) >= Len(tail)
    /\ SubSeq(h, Len(h) - Len(tail) + 1, Len(h)) = tail

ErasePrefix ==
    <<W(2730, 170), W(1365, 85), W(2730, 128), W(2730, 170), W(1365, 85)>>

ProgramSeq ==
    /\ Len(Received) >= 4
    /\ EndsWith(SubSeq(Received, 1, Len(Received) - 1),
                <<W(2730, 170), W(1365, 85), W(2730, 160)>>)

ChipEraseSeq == EndsWith(Received, Append(ErasePrefix, W(2730, 16)))

BlockEraseSeq ==
    /\ last'.data = 48
    /\ Len(Received) >= 6
    /\ EndsWith(SubSeq(Received, 1, Len(Received) - 1), ErasePrefix)

\* The offsets at which the byte array can differ before and after a step:
\* the programmed cells, and the ends of the erased ranges and of the ranges
\* in extra.
FlashPoints(extra) ==
    LET spans == data.fills \cup data'.fills \cup extra
        ends == UNION {{f[1] - 1, f[1], f[2] - 1, f[2]} : f \in spans}
        all == {0, TOTAL_SIZE - 1} \cup ends \cup DOMAIN data.cells
                  \cup DOMAIN data'.cells
    IN  {q \in all : 0 <= q /\ q < TOTAL_SIZE}

\* the block table: 31 x 64KB, 32KB, 8KB, 8KB, 16KB, from offset 0
TableSpan(k) ==
    CASE k <= 30 -> <<k * 65536, (k + 1) * 65536>>
      [] k = 31 -> <<2031616, 2064384>>
      [] k = 32 -> <<2064384, 2072576>>
      [] k = 33 -> <<2072576, 2080768>>
      [] OTHER  -> <<2080768, 2097152>>

\* the blocks that hold bytes of a bank
OwnerBlocks(bank) ==
    {k \in 0..34 : /\ TableSpan(k)[1] < (bank + 1) * BANK_SIZE
                   /\ TableSpan(k)[2] > bank * BANK_SIZE}

ErasedExactly(span) ==
    \A q \in FlashPoints({span, <<(bank_mask % 128) * BANK_SIZE,
                                  ((bank_mask % 128) + 1) * BANK_SIZE>>}) :
        IF span[1] <= q /\ q < span[2]
        THEN DataGet(data', q) = 255
        ELSE DataGet(data', q) = DataGet(data, q)

\* C8 as stated: a block erase sets to 0xFF exactly one block, the block of the
\* table that owns the selected bank, and leaves every other byte unchanged.
C8_Original ==
    [][(IsCartWrite /\ BlockEraseSeq) =>
          \E k \in OwnerBlocks(bank_mask % 128) : ErasedExactly(TableSpan(k))]_vars

ProgramStep ==
    (IsCartWrite /\ ProgramSeq) =>
       LET cell == (bank_mask % 128) * BANK_SIZE + (last'.address % BANK_SIZE)
           old == DataGet(data, cell)
           new == DataGet(data', cell)
       IN  /\ last'.command.kind = "Program"
           /\ \A k \in 0..7 : Bit(new, k) <=> (Bit(old, k) /\ Bit(last'.data, k))
           /\ old = 255 => new = last'.data
           /\ \A q \in FlashPoints({<<cell, cell + 1>>}) \ {cell} :
                 DataGet(data', q) = DataGet(data, q)

OnlyClears ==
    (IsCartWrite /\ last'.command.kind \notin {"ChipErase", "BlockErase"}) =>
       \A q \in FlashPoints({}) : \A k \in 0..7 :
          Bit(DataGet(data', q), k) => Bit(DataGet(data, q), k)

\* C9: a byte program with data byte d replaces the old value of the addressed
\* cell by old AND d and changes no other byte; on an erased cell the result is
\* d; a program clears bits and never sets one.
C9_Program == [][ProgramStep /\ OnlyClears]_vars

\* a byte program has just stored its data byte in an erased cell
C9_Witness ==
    /\ last.op = "cart" /\ last.command.kind = "Program"
    /\ data.image = "erased" /\ last.data = 15
    /\ DataGet(data, (bank_mask % 128) * BANK_SIZE + last.address) = 15

CommandEffect ==
    /\ ProgramSeq =>
          LET cell == (bank_mask % 128) * BANK_SIZE + (last'.address % BANK_SIZE)
          IN  \A k \in 0..7 :
                 Bit(DataGet(data', cell), k)
                    <=> (Bit(DataGet(data, cell), k) /\ Bit(last'.data, k))
    /\ ChipEraseSeq => \A q \in FlashPoints({}) : DataGet(data', q) = 255
    /\ (BlockEraseSeq /\ ~ChipEraseSeq) =>
          \E k \in 0..34 :
             \A q \in FlashPoints({TableSpan(k)}) :
                (TableSpan(k)[1] <= q /\ q < TableSpan(k)[2])
                   => DataGet(data', q) = 255

HistoryStep ==
    IsCartWrite =>
       /\ Len(flash'.buffer) <= 6
       /\ (ProgramSeq \/ ChipEraseSeq \/ BlockEraseSeq) =>
             /\ last'.command.kind \in {"Program", "ChipErase", "BlockErase"}
             /\ CommandEffect
             /\ flash'.state.kind = "Idle"
             /\ flash'.buffer = <<>>
       /\ last'.command.kind = "None" =>
             /\ EndsWith(Received, flash'.buffer)
             /\ Len(flash'.buffer) = Min(Len(Received), 6)
             /\ data' = data

\* C10: after every cartridge write that completes a recognised command
\* sequence (byte program, chip erase, block erase) the effect is applied, the
\* machine is Idle and the history is empty; the history never holds more than
\* the last 6 writes.
C10_History == (Len(flash.buffer) <= 6) /\ [][HistoryStep]_vars

\* a chip erase has just completed and left an empty history
C10_Witness ==
    /\ last.op = "cart" /\ last.command.kind = "ChipErase"
    /\ flash.state.kind = "Idle" /\ flash.buffer = <<>>
    /\ data.fills # {}


----------------------------------------------------------------------------
(* The peripheral interface (VIA) and the bank-select shift register:      *)
(* CpuBus::write_byte 0x2800..=0x280F and Cartridge2M::update_via.         *)

VIA_BASE == 10240          \* 0x2800
IORA == 1
DDRA == 3
ORA_NH == 15
CLK == 1                   \* PA0
DATA == 2                  \* PA1
LATCH == 4                 \* PA2

\* pa & mask != 0, for a mask of one bit
HasMask(pa, mask) == (pa \div mask) % 2 = 1

\* an event that looks at the level of the signals only
pa_read_level(pa_before, pa_after) ==
    IF HasMask(pa_after, CLK) THEN "ClockRisingEdge"
    ELSE IF HasMask(pa_after, LATCH) THEN "LatchRisingEdge"
    ELSE "None"

\* pa_read: the rising edge a change of port A makes, the clock first
pa_read(pa_before, pa_after) ==
    LET changed(mask) == HasMask(pa_before, mask) # HasMask(pa_after, mask)
    IN  IF HasMask(pa_after, CLK) /\ changed(CLK) THEN "ClockRisingEdge"
        ELSE IF HasMask(pa_after, LATCH) /\ changed(LATCH) THEN "LatchRisingEdge"
        ELSE "None"

\* the clock bit taken for the data bit
pa_clock_bit(pa) == IF HasMask(pa, CLK) THEN 1 ELSE 0

\* pa_data_bit: (pa & DATA) >> 1
pa_data_bit(pa) == IF HasMask(pa, DATA) THEN 1 ELSE 0

\* Cartridge2M::update_via: the shadow register and the bank mask after it
update_via(shifter, mask, before, after) ==
    IF after[DDRA] = 1
    THEN [bank_shifter |-> shifter, bank_mask |-> mask]
    ELSE LET event == pa_read(before[IORA], after[IORA])
         IN  CASE event = "ClockRisingEdge" ->
                    [bank_shifter |-> ((shifter * 2) % 256) + pa_data_bit(after[IORA]),
                     bank_mask |-> mask]
               [] event = "LatchRisingEdge" ->
                    [bank_shifter |-> shifter, bank_mask |-> shifter]
               [] OTHER -> [bank_shifter |-> shifter, bank_mask |-> mask]

\* CpuBus::write_byte, 0x2800..=0x280F
ViaWrite(address, d) ==
    /\ address \in VIA_BASE..(VIA_BASE + 15)
    /\ LET before_reg == via_regs
           register == address % 16
           after_reg == [via_regs EXCEPT ![register] = d]
           u == update_via(bank_shifter, bank_mask, before_reg, after_reg)
       IN  /\ via_regs' = after_reg
           /\ bank_shifter' = u.bank_shifter
           /\ bank_mask' = u.bank_mask
    /\ last' = [op |-> "via", address |-> address, data |-> d]
    /\ UNCHANGED <<data, flash>>
    /\ UNCHANGED busVars
    /\ UNCHANGED emuVars

\* CpuBus::read_byte, 0x2800..=0x280F
ViaRead(address) == via_regs[address % 16]

\* CpuBus::read_byte, 0x8000..=0xFFFF
BusReadCart(address) == CartRead(data, bank_mask, address - CART_BASE)


----------------------------------------------------------------------------
(* The peripheral specification: a 2MB cartridge and the CPU's stores to   *)
(* the VIA registers.                                                      *)

\* stores to the VIA in one behaviour
MaxViaWrites == 3

ViaInitIora == {0, 5, 7}
ViaInitDdra == {0, 1}
ViaInitShifters == {0, 165}
ViaInitMasks == {126, 255}

\* the registers the CPU stores to, and the bytes it stores
ViaInputs ==
    ({VIA_BASE + IORA} \X (0..7)) \cup ({VIA_BASE + DDRA} \X {0, 1, 7})
        \cup ({VIA_BASE + ORA_NH} \X {0, 7})

ViaInit ==
    /\ blit = BlitterDefault
    /\ regs = BlitterRegistersDefault
    /\ dma_flags = DmaFlagsDefault
    /\ banking_register = 0
    /\ framebuffers = [fb \in 0..1 |-> <<>>]
    /\ vram_banks = <<>>
    /\ vram_quad_written = {}
    /\ data = [image |-> "banked", fills |-> {}, cells |-> <<>>]
    /\ bank_shifter \in ViaInitShifters
    /\ bank_mask \in ViaInitMasks
    /\ flash = [state |-> [kind |-> "Idle", command |-> NoCommand], buffer |-> <<>>]
    /\ ticks = 0
    /\ quiet = FALSE
    /\ wlog = {}
    /\ last = [op |-> "init"]
    /\ ops = 0
    /\ \E a \in ViaInitIora : \E d \in ViaInitDdra :
          via_regs = [ViaRegsDefault EXCEPT ![IORA] = a, ![DDRA] = d]
    /\ sdk = SdkIdle
    /\ EmulatorAtRest

CpuViaWrite ==
    \E w \in ViaInputs :
       /\ ops < MaxViaWrites
       /\ ViaWrite(w[1], w[2])
       /\ ops' = ops + 1
       /\ UNCHANGED sdk

ViaNext == CpuViaWrite

SpecVia == ViaInit /\ [][ViaNext]_vars

----------------------------------------------------------------------------
(* The bank-select register under stores to the VIA.                       *)

IsViaWrite == last'.op = "via"

ClockRises == ~HasMask(via_regs[IORA], 1) /\ HasMask(via_regs'[IORA], 1)

LatchRises == ~HasMask(via_regs[IORA], 4) /\ HasMask(via_regs'[IORA], 4)

ShiftedIn ==
    /\ bank_shifter' = ((bank_shifter * 2) % 256)
                          + (IF HasMask(via_regs'[IORA], 2) THEN 1 ELSE 0)
    /\ bank_mask' = bank_mask

Latched == bank_mask' = bank_shifter /\ bank_shifter' = bank_shifter

BankUnchanged == bank_shifter' = bank_shifter /\ bank_mask' = bank_mask

EdgeStep ==
    IF ClockRises THEN ShiftedIn
    ELSE IF LatchRises THEN Latched
    ELSE BankUnchanged

\* C11 as stated: a VIA write on which PA0 rises shifts the data bit into the
\* shadow register, one on which PA2 rises (without a clock rise) copies the
\* shadow register into the bank mask, and every other VIA write leaves both
\* unchanged.
C11_Original == [][IsViaWrite => EdgeStep]_vars

\* C11, amended: the same while the data-direction register of port A (DDRA)
\* holds a value other than 1 after the write; while DDRA holds exactly 1 no
\* VIA write changes the shadow register or the bank mask. Only VIA writes
\* change them.
C11_BankSelect ==
    [][/\ (IsViaWrite /\ via_regs'[DDRA] # 1) => EdgeStep
       /\ (IsViaWrite /\ via_regs'[DDRA] = 1) => BankUnchanged
       /\ ~IsViaWrite => BankUnchanged]_vars

\* a latch edge has just committed a shadow register that was shifted before
C11_Witness ==
    /\ last.op = "via" /\ ops = 3
    /\ HasMask(via_regs[IORA], 4)
    /\ bank_mask = bank_shifter /\ bank_mask \notin ViaInitMasks
    /\ bank_shifter \notin ViaInitShifters


----------------------------------------------------------------------------
(* The SDK's bank change (sdk-template/rom/src/sdk/via.rs) run against the *)
(* emulated VIA and cartridge.                                             *)

\* the stores of Via::change_rom_bank
SdkLength == 20

\* u8::get_bit and u8::set_bit(k, true)
get_bit(b, k) == IF Bit(b, k) THEN 1 ELSE 0

set_bit(b, k) == IF Bit(b, k) THEN b ELSE b + 2 ^ k

\* the store the routine makes at position pc: <<register, byte>>; iora is
\* what self.iora.read() returns at that point
change_rom_bank(pc, banknum, iora) ==
    CASE pc = 0 -> <<DDRA, 7>>
      [] pc = 1 -> <<IORA, 0>>
      [] pc \in 2..17 /\ pc % 2 = 0 ->
            <<IORA, get_bit(banknum, 7 - ((pc - 2) \div 2)) * 2>>
      [] pc \in 2..17 /\ pc % 2 = 1 -> <<IORA, set_bit(iora, 0)>>
      [] pc = 18 -> <<IORA, set_bit(iora, 2)>>
      [] OTHER -> <<IORA, 0>>

\* the program calls via.change_rom_bank(n)
ChangeRomBankCall ==
    \E n \in 0..255 :
       /\ ~sdk.running /\ sdk.pc = 0
       /\ sdk' = [running |-> TRUE, pc |-> 0, banknum |-> n]
       /\ last' = [op |-> "call", banknum |-> n]
       /\ UNCHANGED <<via_regs, ops>>
       /\ UNCHANGED busVars
       /\ UNCHANGED emuVars
       /\ UNCHANGED cartVars

\* one store of the routine
ChangeRomBankStep ==
    /\ sdk.running
    /\ LET w == change_rom_bank(sdk.pc, sdk.banknum, ViaRead(VIA_BASE + IORA))
       IN  ViaWrite(VIA_BASE + w[1], w[2])
    /\ sdk' = [sdk EXCEPT !.pc = @ + 1, !.running = (sdk.pc + 1 < SdkLength)]
    /\ UNCHANGED ops

BankInit == ViaInit

BankNext == ChangeRomBankCall \/ ChangeRomBankStep

SpecBank == BankInit /\ [][BankNext]_vars

\* the bytes at offset k of the two halves of the cartridge's address range
LowWindow(k) == BusReadCart(CART_BASE + k)

HighWindow(k) == BusReadCart(CART_BASE + BANK_SIZE + k)

ProbeOffsets == {0, 1, 255, 8192, BANK_SIZE - 1}

\* C12: after the SDK's change_rom_bank(n), for every n in 0..255 and every
\* prior state of the VIA registers, shadow register and bank mask, the bank
\* mask is n and reads at 0x8000-0xBFFF return bank (n & 0x7F); reads at
\* 0xC000-0xFFFF return bank 127 before, during and after the routine.
C12_ChangeRomBank ==
    /\ \A k \in ProbeOffsets :
          HighWindow(k) = DataGet(data, 127 * BANK_SIZE + k)
    /\ (~sdk.running /\ sdk.pc = SdkLength) =>
          /\ bank_mask = sdk.banknum
          /\ \A k \in ProbeOffsets :
                LowWindow(k) = DataGet(data, (sdk.banknum % 128) * BANK_SIZE + k)

\* the routine has ended for a bank above 127, from a prior state with other
\* bits in the shadow register, the bank mask and port A
C12_Witness ==
    /\ ~sdk.running /\ sdk.pc = SdkLength /\ sdk.banknum = 202
    /\ bank_mask = 202 /\ via_regs[IORA] = 0 /\ via_regs[DDRA] = 7
    /\ LowWindow(1) = (74 * 13 + 1) % 256
    /\ LowWindow(1) # HighWindow(1)


----------------------------------------------------------------------------
(* What the window at 0x4000-0x7FFF reaches.                               *)

IsWindowWrite ==
    last'.op = "write" /\ last'.address \in WINDOW_BASE..(CART_BASE - 1)

IsWindowRead == last'.op = "read"

\* the region the two flag bits of the current DMA flags select
Mapped ==
    IF Bit(dma_flags, 0) THEN "BlitterRegisters"
    ELSE IF Bit(dma_flags, 5) THEN "FrameBuffer"
    ELSE "VRAM"

\* the field of the blitter registers at a window address
RegisterAt(r, address) ==
    CASE address = 16384 -> r.vx
      [] address = 16385 -> r.vy
      [] address = 16386 -> r.gx
      [] address = 16387 -> r.gy
      [] address = 16388 -> r.width
      [] address = 16389 -> r.height
      [] address = 16390 -> r.start.write
      [] OTHER -> r.color

WindowStep ==
    /\ IsWindowWrite =>
          LET k == last'.address - WINDOW_BASE
              d == last'.data
          IN  CASE Mapped = "BlitterRegisters" ->
                      /\ framebuffers' = framebuffers /\ vram_banks' = vram_banks
                      /\ RegisterAt(regs', last'.address) = d
                [] Mapped = "FrameBuffer" ->
                      /\ regs' = regs /\ vram_banks' = vram_banks
                      /\ \E fb \in 0..1 : FbGet(framebuffers', fb, k) = d
                [] OTHER ->
                      /\ regs' = regs /\ framebuffers' = framebuffers
                      /\ VramGet(vram_banks', banking_register % 8,
                                 k + vram_quadrant(regs) * 16384) = d
    /\ IsWindowRead =>
          LET k == last'.address - WINDOW_BASE
          IN  /\ framebuffers' = framebuffers /\ vram_banks' = vram_banks
              /\ CASE Mapped = "BlitterRegisters" -> last'.data = 0
                    [] Mapped = "FrameBuffer" ->
                          /\ regs' = regs
                          /\ \E fb \in 0..1 : last'.data = FbGet(framebuffers, fb, k)
                    [] OTHER ->
                          /\ regs' = regs
                          /\ last'.data =
                                VramGet(vram_banks, banking_register % 8,
                                        k + vram_quadrant(regs) * 16384)
    /\ (last'.op = "write" /\ last'.address = DMA_FLAGS_ADDR) =>
          dma_flags' = last'.data

\* C13: exactly one of {framebuffer, VRAM, blitter registers} is mapped at
\* 0x4000-0x7FFF, chosen by bits 0 and 5 of the current DMA flags (bit 0 set:
\* blitter registers; bit 0 clear and bit 5 set: framebuffer; both clear:
\* VRAM); every access is routed by the flags as they are at that access.
C13_WindowMap == [][WindowStep]_vars

\* a store to 0x2007 switched the window to VRAM and the next store went there
C13_Witness ==
    /\ last.op = "write" /\ last.address = WINDOW_BASE /\ ops = 2
    /\ ~Bit(dma_flags, 0) /\ ~Bit(dma_flags, 5)
    /\ VramGet(vram_banks, 0, 0) = last.data /\ last.data = 127
    /\ regs.vx = 0 /\ framebuffers = [fb \in 0..1 |-> <<>>]


----------------------------------------------------------------------------
(* The scheduler (emulator.rs). The CPU bus is threaded through one        *)
(* iteration of the budget loop as a record of the bus variables.          *)

ram_bank(b) == b \div 64

\* the CPU bus as the current state holds it
TheBus ==
    [regs |-> regs, dma_flags |-> dma_flags, banking_register |-> banking_register,
     framebuffers |-> framebuffers, vram_banks |-> vram_banks,
     vram_quad_written |-> vram_quad_written, bus |-> bus, aram |-> aram,
     via_regs |-> via_regs, bank_shifter |-> bank_shifter, bank_mask |-> bank_mask]

\* a sparse byte array with default 0
CellSet(cells, k, v) ==
    LET keep == IF v = 0 THEN DOMAIN cells \ {k} ELSE DOMAIN cells \cup {k}
    IN  [j \in keep |-> IF j = k THEN v ELSE cells[j]]

CellGet(cells, k) == IF k \in DOMAIN cells THEN cells[k] ELSE 0

\* SystemControl::write_byte
system_control_write_byte(m, address, d) ==
    CASE address = 8192 -> [m EXCEPT !.bus.reset_acp = d]
      [] address = 8193 -> [m EXCEPT !.bus.nmi_acp = d]
      [] address = BANKING_ADDR -> [m EXCEPT !.banking_register = d]
      [] address = 8198 -> [m EXCEPT !.bus.audio_enable_sample_rate = d]
      [] address = DMA_FLAGS_ADDR -> [m EXCEPT !.dma_flags = d]
      [] OTHER -> m

\* CpuBus::write_byte, below the cartridge
write_byte(m, address, d) ==
    CASE address \in 0..8191 ->
            [m EXCEPT !.bus.ram_banks =
                CellSet(@, <<ram_bank(m.banking_register), address>>, d)]
      [] address \in 8192..8201 -> system_control_write_byte(m, address, d)
      [] address \in VIA_BASE..(VIA_BASE + 15) ->
            LET after == [m.via_regs EXCEPT ![address % 16] = d]
                u == IF m.bus.cartridge = "Cart2m"
                     THEN update_via(m.bank_shifter, m.bank_mask, m.via_regs, after)
                     ELSE [bank_shifter |-> m.bank_shifter, bank_mask |-> m.bank_mask]
            IN  [m EXCEPT !.via_regs = after, !.bank_shifter = u.bank_shifter,
                          !.bank_mask = u.bank_mask]
      [] address \in 12288..16383 ->
            [m EXCEPT !.aram = CellSet(@, address - 12288, d)]
      [] address \in WINDOW_BASE..(CART_BASE - 1) ->
            LET map == get_graphics_memory_map(m.dma_flags)
                page == vram_page(m.banking_register)
                quadrant == vram_quadrant(m.regs)
            IN  CASE map = "FrameBuffer" ->
                        [m EXCEPT !.framebuffers =
                            FbSet(@, framebuffer(m.banking_register),
                                  address - WINDOW_BASE, d)]
                  [] map = "VRAM" ->
                        [m EXCEPT !.vram_banks =
                            VramSet(@, page,
                                    address - WINDOW_BASE + quadrant * (128 * 128), d),
                                  !.vram_quad_written = @ \cup {quadrant + page * 4}]
                  [] OTHER -> [m EXCEPT !.regs = BlitterRegWrite(@, address, d)]
      [] OTHER -> m

\* CpuBus::read_byte, what a load changes on the bus
read_byte(m, address) ==
    IF /\ address \in WINDOW_BASE..(CART_BASE - 1)
       /\ get_graphics_memory_map(m.dma_flags) = "BlitterRegisters"
    THEN [m EXCEPT !.regs = BlitterRegRead(@, address)]
    ELSE m

\* one W65C02S::step as the bus sees it: no access, a load or a store
Access(m, a) ==
    CASE a.op = "write" -> write_byte(m, a.address, a.data)
      [] a.op = "read" -> read_byte(m, a.address)
      [] OTHER -> m


cpu_frequency_hz == 3579545

\* an elapsed time above this many microseconds is replaced (elapsed_ms > 33.0)
ClampAboveUs == 33000

\* the elapsed time that replaces it (16.667 ms)
ClampedUs == 16667

VBLANK_CYCLES == 59659

\* (elapsed_ns / cpu_ns_per_cycle) as i32 for a time in microseconds:
\* floor(us * 3579545 / 1000000), computed without leaving 32 bits
CyclesOf(us) ==
    LET num == cpu_frequency_hz \div 5
        x == (us \div 200) * num
        y == (us % 200) * num
    IN  (x \div 1000) + (((x % 1000) * 200 + y) \div 200000)

\* a budget that does not clamp
CycleBudgetRaw(elapsed_us) == CyclesOf(elapsed_us)

\* process_cycles, lines 142-151: the budget of a tick
CycleBudget(elapsed_us) ==
    CyclesOf(IF elapsed_us > ClampAboveUs THEN ClampedUs ELSE elapsed_us)

acp_enabled(b) == b.audio_enable_sample_rate >= 128

sample_rate(b) == b.audio_enable_sample_rate

vblank_nmi_enabled(m) == dma_nmi(m.dma_flags)

\* GameTankAudio::new, line 56: slots of the sample ring
RING_CAPACITY == 1024

\* GameTankSignal::is_exhausted, line 37
EXHAUSTED_BELOW == 64

\* the value heard when the ring is empty (GameTankSignal::next, line 32)
Silence == 0

\* GameTankAudio::new: source_hz / target_hz of the converter, in
\* thousandths; the source rate is cpu_frequency_hz / the rate register
SourceToTarget(rate, target) == ((cpu_frequency_hz \div rate) * 1000) \div target

\* GameTankAudio::new
GameTankAudioNew(au, rate) ==
    [au EXCEPT !.open = TRUE, !.sample_rate = rate, !.ring = <<>>,
               !.interpolation_value = 0]

\* run_acp, lines 230-235: producer.push; a full ring drops the sample
Push(au, sample) ==
    LET n == au.pushes + 1
    IN  IF Len(au.ring) < RING_CAPACITY
        THEN [au EXCEPT !.ring = Append(@, [n |-> n, sample |-> sample]), !.pushes = n]
        ELSE [au EXCEPT !.pushes = n, !.dropped = @ + 1]

\* a consumer that takes the newest sample
SignalNextNewest(au) ==
    IF au.ring # <<>>
    THEN [au EXCEPT !.ring = SubSeq(@, 1, Len(@) - 1),
                    !.heard = Append(@, au.ring[Len(au.ring)].n)]
    ELSE [au EXCEPT !.heard = Append(@, Silence)]

\* GameTankSignal::next: pop, or silence when the ring is empty
SignalNext(au) ==
    IF au.ring # <<>>
    THEN [au EXCEPT !.ring = Tail(@), !.heard = Append(@, Head(au.ring).n)]
    ELSE [au EXCEPT !.heard = Append(@, Silence)]

\* GameTankSignal::is_exhausted
is_exhausted(au) == Len(au.ring) < EXHAUSTED_BELOW

\* the converter built at line 61, one output frame: a source frame is
\* taken for every whole step of the interpolation value, which then
\* advances by source_hz / target_hz
RECURSIVE ConverterNext(_)
ConverterNext(au) ==
    IF au.interpolation_value >= 1000
    THEN ConverterNext([SignalNext(au) EXCEPT !.interpolation_value = @ - 1000])
    ELSE [au EXCEPT !.interpolation_value =
                        @ + SourceToTarget(au.sample_rate, au.target_sample_rate)]

\* convert_to_output_buffers, lines 74-76: frames are converted until the
\* signal is exhausted and the converter needs a source frame
RECURSIVE convert_to_output_buffers(_)
convert_to_output_buffers(au) ==
    IF is_exhausted(au) /\ au.interpolation_value >= 1000 THEN au
    ELSE convert_to_output_buffers(ConverterNext(au))

\* run_acp, lines 223-240: the stream is built anew when there is none or
\* the rate changed, the sample is pushed, the queued samples are converted
PushSample(au, rate, sample) ==
    LET au1 == IF ~au.open \/ au.sample_rate # rate
               THEN GameTankAudioNew(au, rate) ELSE au
    IN  convert_to_output_buffers(Push(au1, sample))

\* an ACP step that writes w to the sample port, or nothing when w is NoSample
NoSample == 0 - 1
AcpStep(a, w) ==
    [a EXCEPT !.state = "Running", !.sample = IF w = NoSample THEN @ ELSE w]

\* the periodic sample of run_acp, taken when the counter is still positive
SampleDueEarly(counter) == counter <= 4

\* run_acp, line 219
SampleDue(counter) == counter <= 0

\* run_acp, the drain loop (lines 210-242): ACP steps of k cycles each
\* while the accumulator is positive. steps lists, for every ACP step, the
\* IRQ line the step ran with, the counter after the step, and the pushes
\* made until then.
RECURSIVE AcpLoop(_, _, _, _, _, _, _, _)
AcpLoop(a, au, rate, acc, k, w, ran, steps) ==
    IF acc <= 0 THEN [acp |-> a, audio |-> au, acc |-> acc, ran |-> ran, steps |-> steps]
    ELSE LET a0 == AcpStep(a, w)
             counter == a0.irq_counter - k
             due == SampleDue(counter)
             a1 == IF due
                   THEN [a0 EXCEPT !.nmi = FALSE, !.irq_counter = rate * 4, !.irq = TRUE]
                   ELSE [a0 EXCEPT !.nmi = FALSE, !.irq_counter = counter, !.irq = FALSE]
             au1 == IF due THEN PushSample(au, rate, a0.sample) ELSE au
             st == [irq_in |-> a.irq, counter |-> counter, sample |-> a0.sample,
                    reset_to |-> a1.irq_counter, irq_out |-> a1.irq,
                    pushes |-> au1.pushes]
         IN  AcpLoop(a1, au1, rate, acc - k, k, w, ran + k, Append(steps, st))

\* Emulator::run_acp
run_acp(a, b, au, acc, k, w) ==
    LET a1 == IF b.reset_acp % 2 = 1 THEN [a EXCEPT !.state = "Reset"] ELSE a
        a2 == IF b.nmi_acp % 2 = 1 THEN [a1 EXCEPT !.nmi = TRUE] ELSE a1
        b2 == [b EXCEPT !.reset_acp = 0, !.nmi_acp = 0]
        r  == AcpLoop(a2, au, sample_rate(b2), acc, k, w, 0, <<>>)
    IN  [acp |-> r.acp, bus |-> b2, audio |-> r.audio, acc |-> r.acc, ran |-> r.ran,
         steps |-> r.steps]

\* the blit loop that runs one engine cycle short
RECURSIVE BlitLoopShort(_, _, _, _, _)
BlitLoopShort(st, f, bank, vr, n) ==
    IF n <= 1 THEN st
    ELSE LET cy == Cycle(st.blit, st.regs, f, bank, vr)
         IN  BlitLoopShort(
                 [blit |-> cy.blitter, regs |-> start_cleared(st.regs),
                  framebuffers |-> ApplyWrites(st.framebuffers, cy.write),
                  cycles |-> st.cycles + 1, pending |-> st.pending],
                 f, bank, vr, n - 1)

\* process_cycles, lines 176-178: n calls of Blitter::cycle. `cycles` counts
\* the calls; `pending` follows the completions and the acknowledgements
RECURSIVE BlitLoop(_, _, _, _, _)
BlitLoop(st, f, bank, vr, n) ==
    IF n = 0 THEN st
    ELSE LET cy == Cycle(st.blit, st.regs, f, bank, vr)
             completed == /\ st.blit.blitting \/ cy.latched
                          /\ ~cy.blitter.blitting
                          /\ dma_irq(f)
         IN  BlitLoop(
                 [blit |-> cy.blitter, regs |-> start_cleared(st.regs),
                  framebuffers |-> ApplyWrites(st.framebuffers, cy.write),
                  cycles |-> st.cycles + 1,
                  pending |-> completed \/ (st.pending /\ ~st.regs.start.addressed)],
                 f, bank, vr, n - 1)


\* KeyState::update and KeyState::is_pressed
KeyUpdate(ks) ==
    CASE ks = "JustPressed" -> "Held"
      [] ks = "JustReleased" -> "Released"
      [] OTHER -> ks

is_pressed(ks) == ks \in {"JustPressed", "Held"}

\* Emulator::set_input_state: FnvIndexMap::insert keeps the order of first
\* insertion
InputInsert(input_state, key, ks) ==
    IF \E i \in DOMAIN input_state : input_state[i].key = key
    THEN [i \in DOMAIN input_state |->
             IF input_state[i].key = key THEN [key |-> key, state |-> ks]
             ELSE input_state[i]]
    ELSE Append(input_state, [key |-> key, state |-> ks])

\* what process_inputs works on
TheMachine ==
    [play_state |-> emu.play_state, cpu |-> cpu, acp |-> acp, m |-> TheBus,
     blit |-> blit, pending |-> count.pending]

\* CpuBus::default with the cartridge kept (process_inputs, lines 283-285)
HardResetBus(m) ==
    [m EXCEPT !.regs = BlitterRegistersDefault, !.dma_flags = DmaFlagsDefault,
              !.banking_register = 0,
              !.framebuffers = [fb \in 0..1 |-> <<>>],
              !.vram_banks = <<>>, !.vram_quad_written = {},
              !.via_regs = ViaRegsDefault,
              !.bus = [CpuBusDefault EXCEPT !.cartridge = m.bus.cartridge]]

\* process_inputs, lines 281-290
HardReset(st) ==
    [st EXCEPT !.m = HardResetBus(st.m),
               !.cpu = [CpuNew EXCEPT !.state = "Running"],
               !.acp = [AcpNew EXCEPT !.irq_counter = st.acp.irq_counter,
                                    !.sample = st.acp.sample],
               !.blit = BlitterDefault,
               !.pending = FALSE]

\* process_inputs, lines 278-280
SoftReset(st) == [st EXCEPT !.cpu.state = "Reset"]

\* process_inputs, lines 266-291: one key of the map
ProcessKey(st, key, ks) ==
    CASE key = "Controller1A" ->
            [st EXCEPT !.m.bus.gamepads[1].pressed =
                IF is_pressed(ks) THEN @ \cup {"A"} ELSE @ \ {"A"}]
      [] key = "PlayPause" ->
            IF ks = "JustReleased"
            THEN [st EXCEPT !.play_state =
                     IF st.play_state = "Playing" THEN "Paused" ELSE "Playing"]
            ELSE st
      [] key = "SoftReset" -> SoftReset(st)
      [] key = "HardReset" -> HardReset(st)
      [] OTHER -> st

RECURSIVE ProcessKeys(_, _, _)
ProcessKeys(st, input_state, i) ==
    IF i > Len(input_state) THEN st
    ELSE ProcessKeys(ProcessKey(st, input_state[i].key, input_state[i].state),
                     input_state, i + 1)

\* Emulator::process_inputs
process_inputs(st, input_state) ==
    LET st1 == IF Len(input_state) > 0 /\ st.play_state = "WasmInit"
               THEN [st EXCEPT !.play_state = "Playing"] ELSE st
    IN  [machine |-> ProcessKeys(st1, input_state, 1),
         input_state |-> [i \in DOMAIN input_state |->
                             [key |-> input_state[i].key,
                              state |-> KeyUpdate(input_state[i].state)]]]


\* an IRQ line taken from the completion flag the iteration started with
LatchIrqBefore(cp, before, after) == [cp EXCEPT !.irq = before.irq_trigger]

\* process_cycles, lines 180-185: the IRQ line follows the completion flag
LatchIrq(cp, before, after) == [cp EXCEPT !.irq = after.irq_trigger]

\* a vblank that starts the countdown afresh
vblank_restart(countdown, cp, m) ==
    [clock_cycles_to_vblank |-> VBLANK_CYCLES,
     cpu |-> IF vblank_nmi_enabled(m) THEN [cp EXCEPT !.nmi = TRUE] ELSE cp,
     raised |-> IF vblank_nmi_enabled(m) THEN 1 ELSE 0,
     called |-> 1]

\* Emulator::vblank on a countdown that has run out
vblank(countdown, cp, m) ==
    [clock_cycles_to_vblank |-> countdown + VBLANK_CYCLES,
     cpu |-> IF vblank_nmi_enabled(m) THEN [cp EXCEPT !.nmi = TRUE] ELSE cp,
     raised |-> IF vblank_nmi_enabled(m) THEN 1 ELSE 0,
     called |-> 1]

\* a countdown that has to go below zero before the vblank
VblankCountdownLate(countdown, cp, m, cpu_cycles) ==
    IF countdown - cpu_cycles < 0
    THEN vblank(countdown - cpu_cycles, cp, m)
    ELSE [clock_cycles_to_vblank |-> countdown - cpu_cycles, cpu |-> cp, raised |-> 0,
          called |-> 0]

\* process_cycles, lines 187-190
VblankCountdown(countdown, cp, m, cpu_cycles) ==
    IF countdown - cpu_cycles <= 0
    THEN vblank(countdown - cpu_cycles, cp, m)
    ELSE [clock_cycles_to_vblank |-> countdown - cpu_cycles, cpu |-> cp, raised |-> 0,
          called |-> 0]

\* the bus variables take the values of a bus record
SetBus(m) ==
    /\ regs' = m.regs
    /\ dma_flags' = m.dma_flags
    /\ banking_register' = m.banking_register
    /\ framebuffers' = m.framebuffers
    /\ vram_banks' = m.vram_banks
    /\ vram_quad_written' = m.vram_quad_written
    /\ bus' = m.bus
    /\ aram' = m.aram
    /\ via_regs' = m.via_regs
    /\ bank_shifter' = m.bank_shifter
    /\ bank_mask' = m.bank_mask

\* Emulator::set_input_state, called by the frontend between ticks
SetInputState(key, ks) ==
    /\ ~emu.in_loop
    /\ emu' = [emu EXCEPT !.input_state = InputInsert(@, key, ks)]
    /\ count' = [count EXCEPT !.inputs = @ + 1]
    /\ last' = [op |-> "input", key |-> key, state |-> ks]
    /\ UNCHANGED <<cpu, acp, bus, aram, audio>>
    /\ UNCHANGED <<ops, data, bank_shifter, bank_mask, flash>>
    /\ UNCHANGED busVars
    /\ UNCHANGED viaVars

\* Emulator::load_rom
LoadRom(kind) ==
    /\ ~emu.in_loop
    /\ bus' = [bus EXCEPT !.cartridge = kind]
    /\ cpu' = [cpu EXCEPT !.state = "Reset"]
    /\ acp' = [acp EXCEPT !.state = "Reset"]
    /\ blit' = [blit EXCEPT !.irq_trigger = FALSE]
    /\ count' = [count EXCEPT !.pending = FALSE]
    /\ last' = [op |-> "load", kind |-> kind]
    /\ UNCHANGED <<emu, aram, audio, ops, data, bank_shifter, bank_mask, flash>>
    /\ UNCHANGED <<regs, dma_flags, banking_register, framebuffers, vram_banks,
                   vram_quad_written, ticks, quiet, wlog>>
    /\ UNCHANGED viaVars

\* a play-state test that lets every tick run
ShouldRunAlways(play_state) == TRUE

\* process_cycles, lines 138-140
ShouldRun(play_state) == play_state = "Playing"

\* Emulator::process_cycles up to the budget loop: the inputs, the play
\* state, the budget. dt is the time the clock has advanced since the
\* previous call.
Tick(dt) ==
    /\ ~emu.in_loop
    /\ LET pi == process_inputs(TheMachine, emu.input_state)
           st == pi.machine
           now == emu.now + dt
           playing == ShouldRun(st.play_state)
           elapsed == now - emu.last_emu_tick
           budget == CycleBudget(elapsed)
       IN  /\ emu' = [emu EXCEPT
                         !.play_state = st.play_state,
                         !.input_state = pi.input_state,
                         !.now = now,
                         !.in_loop = playing /\ budget > 0,
                         !.remaining_cycles = IF playing /\ budget > 0 THEN budget ELSE 0,
                         !.acp_cycle_accumulator = 0,
                         !.last_emu_tick = IF playing /\ budget <= 0 THEN now ELSE @]
           /\ cpu' = st.cpu
           /\ acp' = st.acp
           /\ blit' = st.blit
           /\ SetBus(st.m)
           /\ count' = [count EXCEPT !.pending = st.pending, !.ticks = @ + 1]
           /\ last' = [op |-> "tick", was |-> emu.play_state, playing |-> playing,
                       elapsed |-> elapsed,
                       budget |-> IF playing THEN budget ELSE 0]
    /\ UNCHANGED <<data, flash, ticks, quiet, wlog, ops, sdk, audio>>

\* One iteration of the budget loop (process_cycles, lines 155-191): a CPU
\* step of cpu_cycles cycles making bus access a, the ACP drain with ACP
\* steps of acp_cycles cycles each, the blit loop, the IRQ latch, the vblank
\* countdown; after the last iteration, line 193.
Iteration(cpu_cycles, a, acp_cycles) ==
    /\ emu.in_loop
    /\ LET m1 == Access(TheBus, a)
           acc1 == emu.acp_cycle_accumulator + cpu_cycles * 4
           enabled == acp_enabled(m1.bus)
           ra == IF enabled THEN run_acp(acp, m1.bus, audio, acc1, acp_cycles, NoSample)
                 ELSE [acp |-> acp, bus |-> m1.bus, audio |-> audio, acc |-> acc1,
                       ran |-> 0]
           bl == BlitLoop([blit |-> blit, regs |-> m1.regs,
                           framebuffers |-> m1.framebuffers, cycles |-> 0,
                           pending |-> count.pending],
                          m1.dma_flags, m1.banking_register, m1.vram_banks,
                          cpu_cycles)
           cp == LatchIrq([cpu EXCEPT !.state = "Running"], blit, bl.blit)
           vb == VblankCountdown(emu.clock_cycles_to_vblank, cp, m1, cpu_cycles)
           remaining == emu.remaining_cycles - cpu_cycles
           done == remaining <= 0
       IN  /\ emu' = [emu EXCEPT
                         !.remaining_cycles = IF done THEN 0 ELSE remaining,
                         !.acp_cycle_accumulator = IF done THEN 0 ELSE ra.acc,
                         !.in_loop = ~done,
                         !.clock_cycles_to_vblank = vb.clock_cycles_to_vblank,
                         !.last_emu_tick = IF done THEN emu.now ELSE @]
           /\ cpu' = vb.cpu
           /\ acp' = ra.acp
           /\ audio' = ra.audio
           /\ blit' = bl.blit
           /\ SetBus([m1 EXCEPT !.bus = ra.bus, !.regs = bl.regs,
                                !.framebuffers = bl.framebuffers])
           /\ count' = [count EXCEPT
                           !.cpu = @ + cpu_cycles,
                           !.blitter = @ + bl.cycles,
                           !.acp = @ + ra.ran,
                           !.audio_cpu = IF enabled THEN @ + cpu_cycles ELSE @,
                           !.nmi = @ + vb.raised,
                           !.vblank = @ + vb.called,
                           !.pending = bl.pending]
           /\ last' = [op |-> "iteration", cpu_cycles |-> cpu_cycles, access |-> a]
    /\ UNCHANGED <<data, flash, ticks, quiet, wlog, ops, sdk>>


----------------------------------------------------------------------------
(* The scheduler specification: a Playing emulator, ticks one microsecond  *)
(* apart, CPU steps that start and acknowledge blits and switch the audio  *)
(* on and off.                                                             *)

\* ticks in one behaviour
MaxTicks == 3

\* microseconds between two ticks
EmuDeltas == {1}

\* cycles of one CPU step, cycles of one ACP step
StepCycles == {2, 5}
AcpStepCycles == {3}

NoAccess == [op |-> "none", address |-> 0, data |-> 0]
Store(address, d) == [op |-> "write", address |-> address, data |-> d]
Load(address) == [op |-> "read", address |-> address, data |-> 0]

AUDIO_ADDR == 8198
ARAM_BASE == 12288

EmuAccesses ==
    {NoAccess, Store(START_ADDR, 1), Load(START_ADDR),
     Store(AUDIO_ADDR, 128), Store(AUDIO_ADDR, 0), Store(DMA_FLAGS_ADDR, 63)}

\* target_sample_rate as given to Emulator::init: the application's, and
\* one so low that a converted frame takes more samples than are queued
AudioTargets == {TARGET_SAMPLE_RATE, 390}

\* a machine that has been built, but for its bus and its audio stream
MachineInit ==
    /\ blit = BlitterDefault
    /\ regs = [BlitterRegistersDefault EXCEPT !.width = 2, !.height = 1]
    /\ dma_flags = DmaFlagsDefault
    /\ banking_register = 0
    /\ framebuffers = [fb \in 0..1 |-> <<>>]
    /\ vram_banks = <<>>
    /\ vram_quad_written = {}
    /\ data = [image |-> "banked", fills |-> {}, cells |-> <<>>]
    /\ bank_shifter = 0
    /\ bank_mask = 126
    /\ flash = [state |-> [kind |-> "Idle", command |-> NoCommand], buffer |-> <<>>]
    /\ ticks = 0
    /\ quiet = FALSE
    /\ wlog = {}
    /\ last = [op |-> "init"]
    /\ ops = 0
    /\ via_regs = ViaRegsDefault
    /\ sdk = SdkIdle
    /\ cpu = [CpuNew EXCEPT !.state = "Running"]
    /\ acp = AcpNew
    /\ aram = AramDefault
    /\ count = CountZero

EmuInit ==
    /\ MachineInit
    /\ bus = [CpuBusDefault EXCEPT !.cartridge = "Cart2m"]
    /\ audio = AudioOutNone(TARGET_SAMPLE_RATE)
    /\ emu = [EmulatorInit EXCEPT !.play_state = "Playing"]

EmuTick ==
    /\ count.ticks < MaxTicks
    /\ \E dt \in EmuDeltas : Tick(dt)

EmuIteration ==
    \E c \in StepCycles, a \in EmuAccesses, k \in AcpStepCycles : Iteration(c, a, k)

EmuNext == EmuTick \/ EmuIteration

SpecEmu == EmuInit /\ [][EmuNext]_vars


----------------------------------------------------------------------------
(* The three clocks.                                                       *)

IsIteration == last'.op = "iteration"

MaxAcpStep == CHOOSE k \in AcpStepCycles : \A j \in AcpStepCycles : j <= k

Abs(n) == IF n < 0 THEN 0 - n ELSE n

\* C17: the ACP runs at a fixed 4:1 ratio to the CPU: the ACP cycles run so
\* far differ from 4 times the CPU cycles of the iterations in which the
\* audio was enabled by less than one ACP instruction.
C17_Original == Abs(count.acp - 4 * count.audio_cpu) < MaxAcpStep


\* C18: after every iteration of the budget loop the CPU's IRQ line equals
\* the blitter's completion flag as the iteration's last engine cycle left
\* it: asserted from the iteration in which a blit completed with IRQ
\* enabled until the iteration in which the CPU accessed the start register,
\* and not asserted when no completed blit is unacknowledged.
C18_IrqLine ==
    last.op = "iteration" =>
        /\ cpu.irq = blit.irq_trigger
        /\ cpu.irq = count.pending

\* the line is asserted: a blit has completed and the CPU has not yet
\* accessed the start register
C18_Witness ==
    /\ last.op = "iteration" /\ last.access = NoAccess
    /\ cpu.irq /\ count.pending /\ ~blit.blitting
    /\ framebuffers # [fb \in 0..1 |-> <<>>]

\* the line has been released by a load of the start register
C18_Released ==
    /\ last.op = "iteration" /\ last.access = Load(START_ADDR)
    /\ ~cpu.irq /\ ~count.pending
    /\ framebuffers # [fb \in 0..1 |-> <<>>]


----------------------------------------------------------------------------
(* The frame specification: a fresh emulator, a 16K cartridge, one tick of *)
(* tens of milliseconds run to its end by CPU steps that touch no memory.  *)

\* ticks in one behaviour
MaxFrameTicks == 1

\* microseconds between the start and the tick
FrameDeltas == {20000, 33000, 33001}

\* the program: a first instruction of 5 or 7 cycles, then 7-cycle ones
FrameStepCycles(executed) == IF executed = 0 THEN {5, 7} ELSE {7}

\* Emulator::init
FrameInit ==
    /\ MachineInit
    /\ bus = CpuBusDefault
    /\ audio = AudioOutNone(TARGET_SAMPLE_RATE)
    /\ emu = EmulatorInit

\* Emulator::wasm_init
wasm_init ==
    /\ ~emu.in_loop
    /\ emu.play_state = "WasmInit"
    /\ emu' = [emu EXCEPT !.play_state = "Playing", !.last_emu_tick = emu.now]
    /\ last' = [op |-> "start"]
    /\ UNCHANGED <<cpu, acp, bus, aram, count, audio>>
    /\ UNCHANGED <<ops, data, bank_shifter, bank_mask, flash>>
    /\ UNCHANGED busVars
    /\ UNCHANGED viaVars

FrameLoad ==
    /\ bus.cartridge # "Cart16k"
    /\ count.ticks = 0
    /\ LoadRom("Cart16k")

FrameTick ==
    /\ bus.cartridge = "Cart16k"
    /\ count.ticks < MaxFrameTicks
    /\ \E dt \in FrameDeltas : Tick(dt)

FrameIteration ==
    \E c \in FrameStepCycles(count.cpu), k \in AcpStepCycles : Iteration(c, NoAccess, k)

FrameNext == FrameLoad \/ wasm_init \/ FrameTick \/ FrameIteration

SpecFrame == FrameInit /\ [][FrameNext]_vars


----------------------------------------------------------------------------
(* The budget of a tick and the vblank countdown.                          *)

PlayedTick == last.op = "tick" /\ last.playing

\* C14 as stated: a tick whose wall-clock delta is larger than one nominal
\* frame (16.667 ms) gets the budget of exactly one nominal frame.
C14_Original ==
    (PlayedTick /\ last.elapsed > ClampedUs) => last.budget = 59660

\* C14: a tick whose wall-clock delta is larger than 33 ms gets the budget of
\* exactly one nominal frame (the 59660 cycles of 16.667 ms); a tick whose
\* delta is at most 33 ms, a delta above one nominal frame included, gets the
\* budget of the raw elapsed time.
C14_Clamp ==
    PlayedTick =>
        /\ last.elapsed > ClampAboveUs => last.budget = 59660
        /\ last.elapsed <= ClampAboveUs => last.budget = CyclesOf(last.elapsed)
        /\ last.elapsed = 20000 => last.budget = 71590
        /\ last.elapsed = 33000 => last.budget = 118124
        /\ emu.remaining_cycles = last.budget

\* a tick 33.001 ms after the previous one starts its loop with 59660 cycles
C14_Witness ==
    /\ PlayedTick /\ last.elapsed = 33001
    /\ emu.in_loop /\ emu.remaining_cycles = 59660


\* C15: on a freshly initialised emulator with a 16K cartridge loaded and
\* vblank NMI enabled, once the scheduler's CPU steps total 59659 cycles
\* exactly one NMI has been raised and the vblank countdown is back at its
\* initial value 59659; before that no NMI has been raised.
C15_Vblank ==
    (bus.cartridge = "Cart16k" /\ vblank_nmi_enabled(TheBus)) =>
        /\ count.cpu = VBLANK_CYCLES =>
              /\ count.nmi = 1 /\ cpu.nmi
              /\ emu.clock_cycles_to_vblank = EmulatorInit.clock_cycles_to_vblank
        /\ count.cpu < VBLANK_CYCLES =>
              /\ count.nmi = 0 /\ ~cpu.nmi
              /\ emu.clock_cycles_to_vblank = VBLANK_CYCLES - count.cpu
        /\ count.cpu \in VBLANK_CYCLES..(2 * VBLANK_CYCLES - 1) =>
              /\ count.nmi = 1
              /\ emu.clock_cycles_to_vblank = 2 * VBLANK_CYCLES - count.cpu

\* the steps of the loaded program total 59659 cycles in the middle of a tick
C15_Witness ==
    /\ bus.cartridge = "Cart16k" /\ vblank_nmi_enabled(TheBus)
    /\ count.cpu = VBLANK_CYCLES /\ count.nmi = 1
    /\ emu.clock_cycles_to_vblank = 59659
    /\ last.op = "iteration"


----------------------------------------------------------------------------
(* The input specification: the frontend's commands (play/pause, resets, a *)
(* controller button) between short ticks of a machine whose memory the    *)
(* program has written.                                                    *)

\* ticks in one behaviour
MaxInputTicks == 2

\* calls of set_input_state in one behaviour
MaxInputs == 2

InputDeltas == {1}
InputStepCycles == {2}

InputAccesses == {NoAccess, Store(START_ADDR, 1), Store(ARAM_BASE, 9)}

InputKeys == {"PlayPause", "SoftReset", "HardReset", "Controller1A"}
InputKeyStates == {"JustPressed", "JustReleased"}

InputInitPlay == {"WasmInit", "Paused", "Playing"}

\* what the program's stores have left: a RAM cell, the audio enable, the
\* banking and DMA flag registers, port A, a framebuffer cell, a VRAM cell,
\* the blitter's size registers, a bank selected on the cartridge
WrittenMemory ==
    /\ regs = [BlitterRegistersDefault EXCEPT !.width = 2, !.height = 1]
    /\ dma_flags = 126
    /\ banking_register = 8
    /\ framebuffers = [fb \in 0..1 |-> IF fb = 1 THEN (5 :> 17) ELSE <<>>]
    /\ vram_banks = (<<0, 0>> :> 7)
    /\ vram_quad_written = {0}
    /\ via_regs = [ViaRegsDefault EXCEPT ![IORA] = 5, ![DDRA] = 7]
    /\ bank_shifter = 165
    /\ bank_mask = 165
    /\ bus = [CpuBusDefault EXCEPT !.cartridge = "Cart2m",
                                   !.audio_enable_sample_rate = 128,
                                   !.ram_banks = (<<0, 0>> :> 7)]

FreshMemory ==
    /\ regs = [BlitterRegistersDefault EXCEPT !.width = 2, !.height = 1]
    /\ dma_flags = DmaFlagsDefault
    /\ banking_register = 0
    /\ framebuffers = [fb \in 0..1 |-> <<>>]
    /\ vram_banks = <<>>
    /\ vram_quad_written = {}
    /\ via_regs = ViaRegsDefault
    /\ bank_shifter = 0
    /\ bank_mask = 126
    /\ bus = [CpuBusDefault EXCEPT !.cartridge = "Cart2m"]

InputInit ==
    /\ blit = BlitterDefault
    /\ FreshMemory \/ WrittenMemory
    /\ data = [image |-> "banked", fills |-> {}, cells |-> <<>>]
    /\ flash = [state |-> [kind |-> "Idle", command |-> NoCommand], buffer |-> <<>>]
    /\ ticks = 0
    /\ quiet = FALSE
    /\ wlog = {}
    /\ last = [op |-> "init"]
    /\ ops = 0
    /\ sdk = SdkIdle
    /\ \E p \in InputInitPlay : emu = [EmulatorInit EXCEPT !.play_state = p]
    /\ cpu = [CpuNew EXCEPT !.state = "Running"]
    /\ acp = AcpNew
    /\ aram = AramDefault
    /\ count = CountZero
    /\ audio = AudioOutNone(TARGET_SAMPLE_RATE)

InputSet ==
    /\ count.inputs < MaxInputs
    /\ \E key \in InputKeys, ks \in InputKeyStates : SetInputState(key, ks)

InputTick ==
    /\ count.ticks < MaxInputTicks
    /\ \E dt \in InputDeltas : Tick(dt)

InputIteration ==
    \E c \in InputStepCycles, a \in InputAccesses, k \in AcpStepCycles :
        Iteration(c, a, k)

InputNext == InputSet \/ InputTick \/ InputIteration

SpecInput == InputInit /\ [][InputNext]_vars


----------------------------------------------------------------------------
(* Pause and reset.                                                        *)

IsTick == last'.op = "tick"

HasKey(key) == \E i \in DOMAIN emu.input_state : emu.input_state[i].key = key

OnlyKey(key) ==
    /\ Len(emu.input_state) >= 1
    /\ \A i \in DOMAIN emu.input_state : emu.input_state[i].key = key

\* bus memory and registers, the gamepads apart
MemoryUnchanged ==
    /\ UNCHANGED <<regs, dma_flags, banking_register, framebuffers, vram_banks,
                   vram_quad_written, via_regs, aram>>
    /\ bus'.ram_banks = bus.ram_banks
    /\ bus'.reset_acp = bus.reset_acp /\ bus'.nmi_acp = bus.nmi_acp
    /\ bus'.audio_enable_sample_rate = bus.audio_enable_sample_rate

CartridgeUnchanged ==
    /\ UNCHANGED <<data, bank_shifter, bank_mask, flash>>
    /\ bus'.cartridge = bus.cartridge

\* the tick runs no iteration, raises no interrupt and keeps the countdown
\* and the timestamp
NothingRuns ==
    /\ ~emu'.in_loop
    /\ emu'.clock_cycles_to_vblank = emu.clock_cycles_to_vblank
    /\ emu'.last_emu_tick = emu.last_emu_tick
    /\ count'.cpu = count.cpu /\ count'.blitter = count.blitter
    /\ count'.acp = count.acp /\ count'.nmi = count.nmi
    /\ cpu'.irq => cpu.irq
    /\ cpu'.nmi => cpu.nmi
    /\ acp'.irq => acp.irq
    /\ acp'.nmi => acp.nmi

PowerOn ==
    /\ cpu' = [CpuNew EXCEPT !.state = "Running"]
    /\ blit' = BlitterDefault
    /\ regs' = BlitterRegistersDefault
    /\ dma_flags' = DmaFlagsDefault
    /\ banking_register' = 0
    /\ framebuffers' = [fb \in 0..1 |-> <<>>]
    /\ vram_banks' = <<>>
    /\ via_regs' = ViaRegsDefault
    /\ bus'.ram_banks = <<>>
    /\ bus'.reset_acp = 0 /\ bus'.nmi_acp = 0
    /\ bus'.audio_enable_sample_rate = 0

\* C20: a hard reset returns the CPU, every bus-owned region (RAM banks,
\* system-control and peripheral registers, audio RAM, framebuffers, VRAM,
\* blitter registers) and the blitter engine to power-on state and keeps the
\* cartridge and its bank selection; a soft reset changes CPU state only.
C20_Original ==
    [][IsTick =>
          /\ OnlyKey("HardReset") =>
                /\ PowerOn
                /\ aram' = AramDefault
                /\ CartridgeUnchanged
          /\ OnlyKey("SoftReset") =>
                /\ MemoryUnchanged /\ CartridgeUnchanged
                /\ UNCHANGED <<blit, acp>>
                /\ emu'.clock_cycles_to_vblank = emu.clock_cycles_to_vblank
                /\ cpu'.state = "Reset"]_vars

\* the same with the audio RAM left out of the hard reset
C20_ExceptAudioRam ==
    [][IsTick =>
          /\ OnlyKey("HardReset") => PowerOn /\ CartridgeUnchanged /\ aram' = aram
          /\ OnlyKey("SoftReset") =>
                /\ MemoryUnchanged /\ CartridgeUnchanged
                /\ UNCHANGED <<blit, acp>>
                /\ emu'.clock_cycles_to_vblank = emu.clock_cycles_to_vblank
                /\ cpu'.state = "Reset"]_vars


----------------------------------------------------------------------------
(* The audio specification: run_acp called with the accumulator of a CPU   *)
(* step while the audio is enabled, the ACP writing a ramp to its sample   *)
(* port, the CPU storing a new rate now and then.                          *)

\* ACP cycles run in one behaviour, stores to the rate register
MaxAcpCycles == 1100
MaxAudioStores == 1

\* the accumulator after a CPU step of 2 or of 7 cycles
AudioAccumulators == {8, 28}

\* values of the rate register with the audio enabled
AudioRates == {128, 129}

\* samples pushed before the behaviour starts
AudioQueued == {0, 62}

\* the sample the ACP program has written before push n
RampAt(n) == ((n - 1) * 37 + 1) % 256

\* a stream into which n samples were pushed at the rate given, n below
\* EXHAUSTED_BELOW: the first push builds the stream and primes the
\* converter, the later ones find the signal exhausted
Prefilled(au, rate, n) ==
    IF n = 0 THEN au
    ELSE LET first == PushSample(au, rate, RampAt(1))
         IN  [first EXCEPT !.ring = [i \in 1..n |-> [n |-> i, sample |-> RampAt(i)]],
                           !.pushes = n]

\* the sample the ACP program writes next: a ramp over the pushes
RampSample(au) == RampAt(au.pushes + 1)

AudioInit ==
    /\ MachineInit
    /\ emu = [EmulatorInit EXCEPT !.play_state = "Playing"]
    /\ \E target \in AudioTargets, rate \in AudioRates, n \in AudioQueued :
          /\ bus = [CpuBusDefault EXCEPT !.cartridge = "Cart2m",
                                         !.audio_enable_sample_rate = rate]
          /\ audio = Prefilled(AudioOutNone(target), rate, n)

\* process_cycles, lines 166-168: run_acp with the accumulator acc
RunAcp(acc, k, w) ==
    /\ acp_enabled(bus)
    /\ LET r == run_acp(acp, bus, audio, acc, k, w)
       IN  /\ acp' = r.acp
           /\ bus' = r.bus
           /\ audio' = r.audio
           /\ count' = [count EXCEPT !.acp = @ + r.ran]
           /\ last' = [op |-> "run_acp", steps |-> r.steps, rate |-> sample_rate(bus),
                       acc |-> acc, k |-> k, w |-> w]
    /\ UNCHANGED <<emu, cpu, aram, ops, data, bank_shifter, bank_mask, flash>>
    /\ UNCHANGED busVars
    /\ UNCHANGED viaVars

\* a CPU store to the audio rate register
AudioStore(d) ==
    /\ SetBus(Access(TheBus, Store(AUDIO_ADDR, d)))
    /\ ops' = ops + 1
    /\ last' = [op |-> "write", address |-> AUDIO_ADDR, data |-> d]
    /\ UNCHANGED <<emu, cpu, acp, count, audio, data, flash, blit, ticks, quiet, wlog, sdk>>

AudioRun ==
    /\ count.acp < MaxAcpCycles
    /\ \E acc \in AudioAccumulators, k \in AcpStepCycles : RunAcp(acc, k, RampSample(audio))

AudioRate ==
    /\ ops < MaxAudioStores
    /\ \E d \in AudioRates : AudioStore(d)

AudioNext == AudioRun \/ AudioRate

SpecAudio == AudioInit /\ [][AudioNext]_vars


----------------------------------------------------------------------------
(* The audio hand-off.                                                     *)

IsRunAcp == last'.op = "run_acp"

\* the push numbers of the samples in a ring
Tags(q) == [i \in 1..Len(q) |-> q[i].n]

Increasing(q) == \A i, j \in 1..Len(q) : i < j => q[i] < q[j]

\* what the consumer returned that was a sample
HeardSamples(h) == SelectSeq(h, LAMBDA x : x # Silence)

\* the ring never holds more than its capacity; the samples heard and the
\* samples queued are pushed samples in the order of their pushes, none
\* twice; every push was queued or dropped
HandoffInv ==
    /\ Len(audio.ring) <= RING_CAPACITY
    /\ LET line == HeardSamples(audio.heard) \o Tags(audio.ring)
       IN  /\ Increasing(line)
           /\ \A i \in 1..Len(line) : line[i] \in 1..audio.pushes
           /\ Len(line) + audio.dropped <= audio.pushes
    /\ audio.dropped <= audio.pushes

\* one call of run_acp: the consumer takes the queued samples oldest first
\* and returns silence once the ring is empty; a sample is dropped only
\* when the ring is full, and the ACP is stepped all the same
HandoffStep ==
    IsRunAcp =>
        LET kept == audio.open /\ audio.sample_rate = last'.rate
            p == audio'.pushes - audio.pushes
            base == IF p > 0 /\ ~kept THEN <<>> ELSE Tags(audio.ring)
            room == RING_CAPACITY - Len(base)
            offered == [i \in 1..p |-> audio.pushes + i]
            taken == IF p <= room THEN offered ELSE SubSeq(offered, 1, room)
            avail == base \o taken
            H == SubSeq(audio'.heard, Len(audio.heard) + 1, Len(audio'.heard))
            r == Len(HeardSamples(H))
        IN  /\ SubSeq(audio'.heard, 1, Len(audio.heard)) = audio.heard
            /\ r <= Len(avail)
            /\ \A i \in 1..Len(H) : H[i] = IF i <= r THEN avail[i] ELSE Silence
            /\ Tags(audio'.ring) = SubSeq(avail, r + 1, Len(avail))
            /\ r < Len(H) => audio'.ring = <<>>
            /\ audio'.dropped = audio.dropped + (p - Len(taken))
            /\ p = 0 => audio' = audio
            /\ acp' = run_acp(acp, bus, AudioOutNone(audio.target_sample_rate), last'.acc, last'.k, last'.w).acp
            /\ count'.acp > count.acp

C21_NeverFull == Len(audio.ring) < EXHAUSTED_BELOW /\ audio.dropped = 0


----------------------------------------------------------------------------
(* The periodic sample.                                                    *)

\* the ACP steps of one run_acp call, each against the step before it
SampleStep ==
    IsRunAcp =>
        LET steps == last'.steps
            period == 4 * bus.audio_enable_sample_rate
            CounterBefore(i) == IF i = 1 THEN acp.irq_counter ELSE steps[i - 1].reset_to
            PushesBefore(i) == IF i = 1 THEN audio.pushes ELSE steps[i - 1].pushes
            IrqBefore(i) == IF i = 1 THEN acp.irq ELSE steps[i - 1].irq_out
            Queued(n) == {i \in 1..Len(audio'.ring) : audio'.ring[i].n = n}
        IN  /\ steps # <<>>
            /\ \A i \in 1..Len(steps) :
                  LET st == steps[i]
                  IN  /\ st.counter = CounterBefore(i) - last'.k
                      /\ st.irq_in = IrqBefore(i)
                      /\ IF st.counter <= 0
                         THEN /\ st.pushes = PushesBefore(i) + 1
                              /\ st.irq_out
                              /\ st.reset_to = period
                              /\ \A j \in Queued(st.pushes) :
                                    audio'.ring[j].sample = st.sample
                         ELSE /\ st.pushes = PushesBefore(i)
                              /\ ~st.irq_out
                              /\ st.reset_to = st.counter
            /\ acp'.irq = steps[Len(steps)].irq_out
            /\ acp'.irq_counter = steps[Len(steps)].reset_to
            /\ acp'.sample = steps[Len(steps)].sample
            /\ audio'.pushes = steps[Len(steps)].pushes
            /\ period > 0

\* C30: while the audio is enabled, an ACP step that leaves the periodic
\* counter at zero or below is followed by exactly one push of the ACP's
\* output byte, the counter is set to 4 times the rate register and the IRQ
\* line is asserted for the next ACP step only; a step that leaves the
\* counter positive pushes nothing.
C30_PeriodicSample == [][SampleStep]_vars

\* a step left the counter at exactly zero, the byte the ACP had written
\* was pushed and is queued, the next step ran with the IRQ line asserted
\* and released it
C30_Witness ==
    /\ last.op = "run_acp"
    /\ \E i \in 1..(Len(last.steps) - 1) :
          /\ last.steps[i].counter = 0
          /\ last.steps[i].sample # 0
          /\ last.steps[i + 1].irq_in
          /\ ~last.steps[i + 1].irq_out
          /\ \E j \in 1..Len(audio.ring) :
                /\ audio.ring[j].n = last.steps[i].pushes
                /\ audio.ring[j].sample = last.steps[i].sample


----------------------------------------------------------------------------
(* The framebuffer flip.                                                   *)

IsFlagWrite == last'.op = "write" /\ last'.address = DMA_FLAGS_ADDR

\* what a display reader is given: one whole buffer
Snapshot(fbs, f) == fbs[read_full_framebuffer(f)]

\* a store to 0x2007 changes no byte of either framebuffer; the reader is
\* given the other buffer, whole, exactly when the store toggles page-out
FlipStep ==
    IsFlagWrite =>
        /\ framebuffers' = framebuffers
        /\ dma_flags' = last'.data
        /\ IF dma_page_out(dma_flags') # dma_page_out(dma_flags)
           THEN /\ read_full_framebuffer(dma_flags') = 1 - read_full_framebuffer(dma_flags)
                /\ Snapshot(framebuffers', dma_flags') =
                       framebuffers[1 - read_full_framebuffer(dma_flags)]
           ELSE /\ read_full_framebuffer(dma_flags') = read_full_framebuffer(dma_flags)
                /\ Snapshot(framebuffers', dma_flags') = Snapshot(framebuffers, dma_flags)

\* C22: a framebuffer flip is a single flag write: a store to the DMA flags
\* that toggles page-out changes which buffer read_full_framebuffer returns
\* and no byte of either buffer, so a reader between two bus operations is
\* given one whole buffer, the old front or the new.
C22_Flip == [][FlipStep]_vars

\* buffer 0 was written while buffer 1 was displayed, and the store
\* clearing page-out has just made buffer 0 the one displayed
C22_Witness ==
    /\ last.op = "write"
    /\ last.address = DMA_FLAGS_ADDR
    /\ ops = 2
    /\ dma_page_out(dma_flags) = 0
    /\ read_full_framebuffer(dma_flags) = 0
    /\ DOMAIN framebuffers[0] # {}
    /\ DOMAIN framebuffers[1] = {}


----------------------------------------------------------------------------
(* The store specification: CPU stores anywhere on the bus, with a         *)
(* cartridge of any kind.                                                  *)

\* stores in one behaviour
MaxStores == 3

\* a cartridge write that reaches the flash machine whatever the cartridge
cartridge_write_byte_any(kind, f, d, mask, address, v) ==
    LET r == CartWriteResult(f, d, mask, address, v)
    IN  [fsm |-> r.fsm, data |-> r.data, command |-> r.command]

\* CartridgeType::write_byte: only the 2MB cartridge takes writes
cartridge_write_byte(kind, f, d, mask, address, v) ==
    IF kind = "Cart2m"
    THEN LET r == CartWriteResult(f, d, mask, address, v)
         IN  [fsm |-> r.fsm, data |-> r.data, command |-> r.command]
    ELSE [fsm |-> f, data |-> d, command |-> NoCommand]

\* CpuBus::write_byte, the whole address space
CpuStore(address, d) ==
    /\ IF address >= CART_BASE
       THEN LET r == cartridge_write_byte(bus.cartridge, flash, data, bank_mask,
                                          address - CART_BASE, d)
            IN  /\ flash' = r.fsm
                /\ data' = r.data
                /\ UNCHANGED <<regs, dma_flags, banking_register, framebuffers,
                               vram_banks, vram_quad_written, bus, aram, via_regs,
                               bank_shifter, bank_mask>>
       ELSE /\ SetBus(write_byte(TheBus, address, d))
            /\ UNCHANGED <<data, flash>>
    /\ ops' = ops + 1
    /\ last' = [op |-> "store", address |-> address, data |-> d]
    /\ UNCHANGED <<emu, cpu, acp, count, audio, blit, ticks, quiet, wlog, sdk>>

StoreKinds == {"Cart8k", "Cart16k", "Cart32k", "Cart2m"}

\* stores to unmapped addresses, to read-only registers, to the cartridge
\* (the flash protocol and other bytes), and to RAM and the flags register
StoreInputs ==
    {W(8202, 1), W(10239, 2), W(10256, 3), W(12287, 4),
     W(8194, 5), W(8200, 6), W(8201, 7),
     W(CART_BASE + 2730, 170), W(CART_BASE + 1365, 85), W(CART_BASE + 2730, 160),
     W(CART_BASE + 2730, 48), W(CART_BASE + 291, 15),
     W(0, 9), W(DMA_FLAGS_ADDR, 63)}

StoreInit ==
    /\ blit = BlitterDefault
    /\ regs = [BlitterRegistersDefault EXCEPT !.width = 2, !.height = 1]
    /\ dma_flags = 126
    /\ banking_register = 8
    /\ framebuffers = [fb \in 0..1 |-> IF fb = 1 THEN (5 :> 17) ELSE <<>>]
    /\ vram_banks = (<<0, 0>> :> 7)
    /\ vram_quad_written = {0}
    /\ via_regs = [ViaRegsDefault EXCEPT ![IORA] = 5, ![DDRA] = 7]
    /\ bank_shifter = 165
    /\ bank_mask = 165
    /\ \E kind \in StoreKinds :
          bus = [CpuBusDefault EXCEPT !.cartridge = kind,
                                      !.audio_enable_sample_rate = 128,
                                      !.ram_banks = (<<0, 0>> :> 7)]
    /\ data = [image |-> "ramp", fills |-> {}, cells |-> <<>>]
    /\ \E b \in {<<>>, <<W(2730, 170), W(1365, 85)>>} :
          flash = [state |-> [kind |-> "Idle", command |-> NoCommand], buffer |-> b]
    /\ ticks = 0
    /\ quiet = FALSE
    /\ wlog = {}
    /\ last = [op |-> "init"]
    /\ ops = 0
    /\ sdk = SdkIdle
    /\ emu = EmulatorInit
    /\ cpu = [CpuNew EXCEPT !.state = "Running"]
    /\ acp = AcpNew
    /\ aram = (5 :> 9)
    /\ count = CountZero
    /\ audio = AudioOutNone(TARGET_SAMPLE_RATE)

StoreStep ==
    /\ ops < MaxStores
    /\ \E w \in StoreInputs : CpuStore(w.address, w.data)

StoreNext == StoreStep

SpecStore == StoreInit /\ [][StoreNext]_vars


----------------------------------------------------------------------------
(* Stores that are ignored.                                                *)

IsStore == last'.op = "store"

\* the history after a store and the templates its windows complete
HistoryAfter(address, d) == PushInput(flash.buffer, address, d)

CompletesTemplate(address, d) ==
    LET h == HistoryAfter(address, d)
    IN  \E k \in 2..Len(h) :
           from_sequence(SubSeq(h, Len(h) - k + 1, Len(h))).kind # "Unknown"

\* system control registers that take a store (SystemControl::write_byte)
WritableRegisters == {8192, 8193, BANKING_ADDR, AUDIO_ADDR, DMA_FLAGS_ADDR}

\* addresses no arm of CpuBus::write_byte stores to
Unmapped(address) ==
    \/ address \in 8192..8201 /\ address \notin WritableRegisters
    \/ address \in 8202..(VIA_BASE - 1)
    \/ address \in (VIA_BASE + 16)..(ARAM_BASE - 1)

\* the machine outside the cartridge
OutsideCartridge ==
    <<blit, regs, dma_flags, banking_register, framebuffers, vram_banks,
      vram_quad_written, via_regs, emu, cpu, acp, bus, aram, audio>>

IgnoredStep ==
    IsStore =>
        LET address == last'.address
        IN  /\ (address >= CART_BASE /\ bus.cartridge = "Cart2m"
                  /\ ~CompletesTemplate(address - CART_BASE, last'.data)) =>
                   /\ data' = data
                   /\ bank_mask' = bank_mask
                   /\ bank_shifter' = bank_shifter
                   /\ flash'.state = flash.state
                   /\ flash'.buffer = HistoryAfter(address - CART_BASE, last'.data)
                   /\ OutsideCartridge' = OutsideCartridge
            /\ (address >= CART_BASE /\ bus.cartridge # "Cart2m") =>
                   /\ <<data, bank_mask, bank_shifter, flash>>' =
                          <<data, bank_mask, bank_shifter, flash>>
                   /\ OutsideCartridge' = OutsideCartridge
            /\ Unmapped(address) =>
                   /\ <<data, bank_mask, bank_shifter, flash>>' =
                          <<data, bank_mask, bank_shifter, flash>>
                   /\ OutsideCartridge' = OutsideCartridge

\* C23: a cartridge write that completes no flash command template changes
\* no byte of the flash array and not the bank mask; a write to an 8K, 16K
\* or 32K cartridge, to an unmapped address or to a read-only register
\* changes no state of the emulator; none of them fails.
C23_Ignored == [][IgnoredStep]_vars

\* an unlock sequence was begun on the 2MB cartridge and broken by a store
\* of 0x30 to 0xAAA: the three stores are in the history, the array is as
\* it was loaded
C23_Witness ==
    /\ last.op = "store"
    /\ last.address = CART_BASE + 2730
    /\ last.data = 48
    /\ bus.cartridge = "Cart2m"
    /\ flash.buffer = <<W(2730, 170), W(1365, 85), W(2730, 48)>>
    /\ data = [image |-> "ramp", fills |-> {}, cells |-> <<>>]

\* the same stores on a 16K cartridge leave even the history empty
C23_NonFlash ==
    /\ last.op = "store"
    /\ last.address = CART_BASE + 2730
    /\ bus.cartridge = "Cart16k"
    /\ ops = MaxStores
    /\ flash.buffer = <<>>


----------------------------------------------------------------------------
(* The ALU specification: ADC and SBC (gte-w65c02s, instructions.rs) on an *)
(* accumulator, an operand in memory and the carry and decimal flags.      *)

\* instructions in one behaviour
MaxAluOps == 1

\* `x as i8 as u16`
SignExtend(x) == IF x >= 128 THEN x + 65280 ELSE x

\* `x & 0xFFF0` and `x & 0xF0` on a value whose low nibble is taken off
HighPart(x) == x - (x % 16)

\* W65C02S::nz_p: N and Z from the value
nz_p(c, val) == [c EXCEPT !.p.n = val >= 128, !.p.z = val = 0]

\* W65C02S::cnz_p: C from the carry, N and Z from the value
cnz_p(c, carry, val) == [nz_p(c, val) EXCEPT !.p.c = carry]

\* the binary sum of ADC (lines 433-439) and its flags
adc_binary(c, red) ==
    LET val == (c.a + red + (IF c.p.c THEN 1 ELSE 0)) % 65536
        v == Bit(c.a, 7) # Bit(val % 256, 7) /\ Bit(red, 7) # Bit(val % 256, 7)
    IN  cnz_p([c EXCEPT !.a = val % 256, !.p.v = v], val >= 256, val % 256)

\* W65C02S::adc after the operand was read
adc(c, red) ==
    IF c.p.d
    THEN LET al0 == ((c.a % 16) + (red % 16) + (IF c.p.c THEN 1 ELSE 0)) % 256
             al == IF al0 > 9 THEN ((al0 + 6) % 16) + 16 ELSE al0
             sv == (HighPart(SignExtend(c.a)) + HighPart(SignExtend(red)) + al) % 65536
             v == sv >= 128 /\ sv < 65408
             val0 == (HighPart(c.a) + HighPart(red) + al) % 65536
             val == IF val0 > 159
                    THEN LET w == (val0 + 96) % 65536
                         IN  IF Bit(w, 8) THEN w ELSE w + 256
                    ELSE val0
         IN  cnz_p([c EXCEPT !.a = val % 256, !.p.v = v], val >= 256, val % 256)
    ELSE adc_binary(c, red)

\* W65C02S::sbc after the operand was read
sbc(c, red) ==
    LET borrow == IF c.p.c THEN 0 ELSE 1
    IN  IF c.p.d
        THEN LET al == ((c.a % 16) - (red % 16) - borrow) % 256
                 val0 == (c.a - red - borrow) % 65536
                 v == Bit(c.a, 7) # Bit(val0, 7) /\ Bit(red, 7) = Bit(val0, 7)
                 negative == Bit(val0, 15)
                 val1 == IF negative THEN (val0 - 96) % 65536 ELSE val0
                 val == IF al >= 128 THEN (val1 - 6) % 65536 ELSE val1
             IN  [nz_p([c EXCEPT !.p.v = v, !.p.c = ~negative], val % 256)
                     EXCEPT !.a = val % 256]
        ELSE LET inv == 255 - red
                 val == (c.a + inv + (1 - borrow)) % 65536
                 v == Bit(c.a, 7) # Bit(val % 256, 7) /\ Bit(inv, 7) # Bit(val % 256, 7)
             IN  [cnz_p([c EXCEPT !.p.v = v], val >= 256, val % 256)
                     EXCEPT !.a = val % 256]

\* packed decimal
BcdDigits == 0..9
ToBcd(n) == (n \div 10) * 16 + (n % 10)
FromBcd(b) == (b \div 16) * 10 + (b % 16)
IsBcd(b) == (b \div 16) \in BcdDigits /\ (b % 16) \in BcdDigits
BcdBytes == {ToBcd(n) : n \in 0..99}

\* a CPU with accumulator a, carry c and decimal flag d
AluCpu(a, c, d) ==
    [state |-> "Running", irq |-> FALSE, nmi |-> FALSE, a |-> a,
     p |-> [c |-> c, z |-> FALSE, d |-> d, v |-> FALSE, n |-> FALSE]]

AluInit ==
    /\ blit = BlitterDefault
    /\ FreshMemory
    /\ data = [image |-> "banked", fills |-> {}, cells |-> <<>>]
    /\ flash = [state |-> [kind |-> "Idle", command |-> NoCommand], buffer |-> <<>>]
    /\ ticks = 0
    /\ quiet = FALSE
    /\ wlog = {}
    /\ ops = 0
    /\ sdk = SdkIdle
    /\ emu = [EmulatorInit EXCEPT !.play_state = "Playing"]
    /\ acp = AcpNew
    /\ aram = AramDefault
    /\ count = CountZero
    /\ audio = AudioOutNone(TARGET_SAMPLE_RATE)
    /\ \E a \in BcdBytes, c \in BOOLEAN, d \in BOOLEAN : cpu = AluCpu(a, c, d)
    /\ \E red \in BcdBytes : last = [op |-> "init", operand |-> red]

AluStep(op) ==
    /\ ops < MaxAluOps
    /\ cpu' = IF op = "adc" THEN adc(cpu, last.operand) ELSE sbc(cpu, last.operand)
    /\ last' = [op |-> op, operand |-> last.operand, a |-> cpu.a, c |-> cpu.p.c]
    /\ ops' = ops + 1
    /\ UNCHANGED <<emu, acp, bus, aram, count, audio, data, bank_shifter, bank_mask, flash>>
    /\ UNCHANGED busVars
    /\ UNCHANGED viaVars

Adc == AluStep("adc")

Sbc == AluStep("sbc")

AluNext == Adc \/ Sbc

SpecAlu == AluInit /\ [][AluNext]_vars


----------------------------------------------------------------------------
(* Decimal arithmetic.                                                     *)

\* an ADC or SBC in decimal mode on packed decimal operands
DecimalStep ==
    (last'.op \in {"adc", "sbc"} /\ cpu.p.d /\ IsBcd(cpu.a) /\ IsBcd(last'.operand)) =>
        LET a == FromBcd(cpu.a)
            b == FromBcd(last'.operand)
            c == IF cpu.p.c THEN 1 ELSE 0
            sum == a + b + c
            diff == a - b - (1 - c)
        IN  IF last'.op = "adc"
            THEN cpu'.a = ToBcd(sum % 100) /\ cpu'.p.c = (sum >= 100)
            ELSE cpu'.a = ToBcd(diff % 100) /\ cpu'.p.c = (diff >= 0)

\* C24: with the decimal flag set, for packed decimal a and b in 00..99 and
\* either carry c, ADC leaves the packed decimal of (a + b + c) mod 100 with
\* carry set exactly when a + b + c >= 100, and SBC the packed decimal of
\* (a - b - (1 - c)) mod 100 with carry set exactly when there is no borrow.
C24_Decimal == [][DecimalStep]_vars

\* 58 + 46 + 1 in decimal mode: both digits carry, the accumulator holds 05
\* and the carry is set
C24_Witness ==
    /\ last.op = "adc"
    /\ last.a = ToBcd(58)
    /\ last.operand = ToBcd(46)
    /\ last.c
    /\ cpu.p.d
    /\ cpu.a = ToBcd(5)
    /\ cpu.p.c

\* 12 - 34 with a borrow pending: the accumulator holds 77, the carry is
\* clear
C24_Borrow ==
    /\ last.op = "sbc"
    /\ last.a = ToBcd(12)
    /\ last.operand = ToBcd(34)
    /\ ~last.c
    /\ cpu.p.d
    /\ cpu.a = ToBcd(77)
    /\ ~cpu.p.c


----------------------------------------------------------------------------
(* The instruction specification: the load, store and ALU instructions of  *)
(* gte-w65c02s (instructions.rs) as the order of what each one does:       *)
(* resolve the addressing mode, check the interrupt edge, read, write.     *)

\* instructions in one behaviour
MaxInstructions == 1

\* a | b and a ^ b on u8
Or8(a, b) == a + b - And8(a, b)
Xor8(a, b) == a + b - 2 * And8(a, b)

NoWrite == 0 - 1

\* AM::get_operand; check_irq_edge; am.write
StoreOrder == <<"get_operand", "check_irq_edge", "write">>

\* AM::get_operand; check_irq_edge; am.read
LoadOrder == <<"get_operand", "check_irq_edge", "read">>

\* check_irq_edge; AM::get_operand(..).read
LogicOrder == <<"check_irq_edge", "get_operand", "read">>

\* AM::get_operand; am.read; check_irq_edge; am.write_locked
ModifyOrder == <<"get_operand", "read", "check_irq_edge", "write">>

\* adc and sbc with the check of the decimal branch left out
ArithmeticOrderOnce(c) == LoadOrder

\* adc and sbc: a second check_irq_edge in the decimal branch
ArithmeticOrder(c) ==
    IF c.p.d THEN LoadOrder \o <<"check_irq_edge">> ELSE LoadOrder

\* a compare of register r with the operand
Compare(c, r, red) ==
    LET val == (r + (255 - red) + 1) % 65536
    IN  cnz_p(c, val >= 256, val % 256)

\* a read-modify-write whose result and carry out are given
Modify(c, carry, result) ==
    [cpu |-> cnz_p(c, carry, result), order |-> ModifyOrder, written |-> result]

Instructions ==
    {"sta", "stx", "sty", "stz", "lda", "ldx", "ldy", "ora", "and", "bit", "eor",
     "trb", "tsb", "asl", "lsr", "rol", "ror", "inc", "dec",
     "adc", "sbc", "cmp", "cpx", "cpy"}

\* one instruction on CPU c whose operand location holds red: the CPU
\* after it, what it did in order, and the byte it wrote
Instruction(name, c, red) ==
    LET carry == IF c.p.c THEN 1 ELSE 0
        read(cc, order) == [cpu |-> cc, order |-> order, written |-> NoWrite]
        test(result) ==
            [cpu |-> [c EXCEPT !.p.z = And8(red, c.a) = 0],
             order |-> ModifyOrder, written |-> result]
    IN  CASE name = "sta" -> [cpu |-> c, order |-> StoreOrder, written |-> c.a]
          [] name = "stx" -> [cpu |-> c, order |-> StoreOrder, written |-> c.x]
          [] name = "sty" -> [cpu |-> c, order |-> StoreOrder, written |-> c.y]
          [] name = "stz" -> [cpu |-> c, order |-> StoreOrder, written |-> 0]
          [] name = "lda" -> read(nz_p([c EXCEPT !.a = red], red), LoadOrder)
          [] name = "ldx" -> read(nz_p([c EXCEPT !.x = red], red), LoadOrder)
          [] name = "ldy" -> read(nz_p([c EXCEPT !.y = red], red), LoadOrder)
          [] name = "ora" ->
                read(nz_p([c EXCEPT !.a = Or8(c.a, red)], Or8(c.a, red)), LogicOrder)
          [] name = "and" ->
                read(nz_p([c EXCEPT !.a = And8(c.a, red)], And8(c.a, red)), LogicOrder)
          [] name = "eor" ->
                read(nz_p([c EXCEPT !.a = Xor8(c.a, red)], Xor8(c.a, red)), LogicOrder)
          [] name = "bit" ->
                read([c EXCEPT !.p.z = And8(red, c.a) = 0,
                               !.p.n = Bit(red, 7), !.p.v = Bit(red, 6)], LogicOrder)
          [] name = "trb" -> test(And8(red, Not8(c.a)))
          [] name = "tsb" -> test(Or8(red, c.a))
          [] name = "asl" -> Modify(c, Bit(red, 7), (red * 2) % 256)
          [] name = "lsr" -> Modify(c, Bit(red, 0), red \div 2)
          [] name = "rol" -> Modify(c, Bit(red, 7), ((red * 2) % 256) + carry)
          [] name = "ror" -> Modify(c, Bit(red, 0), (red \div 2) + 128 * carry)
          [] name = "inc" ->
                [cpu |-> nz_p(c, wrapping_add(red, 1)), order |-> ModifyOrder,
                 written |-> wrapping_add(red, 1)]
          [] name = "dec" ->
                [cpu |-> nz_p(c, wrapping_sub(red, 1)), order |-> ModifyOrder,
                 written |-> wrapping_sub(red, 1)]
          [] name = "adc" -> read(adc(c, red), ArithmeticOrder(c))
          [] name = "sbc" -> read(sbc(c, red), ArithmeticOrder(c))
          [] name = "cmp" -> read(Compare(c, c.a, red), LoadOrder)
          [] name = "cpx" -> read(Compare(c, c.x, red), LoadOrder)
          [] name = "cpy" -> read(Compare(c, c.y, red), LoadOrder)

InstrAccumulators == {0, 88, 128}
InstrOperands == {0, 70, 255}

InstrInit ==
    /\ blit = BlitterDefault
    /\ FreshMemory
    /\ data = [image |-> "banked", fills |-> {}, cells |-> <<>>]
    /\ flash = [state |-> [kind |-> "Idle", command |-> NoCommand], buffer |-> <<>>]
    /\ ticks = 0
    /\ quiet = FALSE
    /\ wlog = {}
    /\ ops = 0
    /\ sdk = SdkIdle
    /\ emu = [EmulatorInit EXCEPT !.play_state = "Playing"]
    /\ acp = AcpNew
    /\ aram = AramDefault
    /\ count = CountZero
    /\ audio = AudioOutNone(TARGET_SAMPLE_RATE)
    /\ \E a \in InstrAccumulators, c \in BOOLEAN, d \in BOOLEAN :
            cpu = [state |-> "Running", irq |-> FALSE, nmi |-> FALSE,
                   a |-> a, x |-> 1, y |-> 2,
                   p |-> [c |-> c, z |-> FALSE, d |-> d, v |-> FALSE, n |-> FALSE]]
    /\ \E red \in InstrOperands : last = [op |-> "init", operand |-> red]

\* the CPU executes one of the instructions
Execute ==
    /\ ops < MaxInstructions
    /\ \E name \in Instructions :
            LET r == Instruction(name, cpu, last.operand)
            IN  /\ cpu' = r.cpu
                /\ last' = [op |-> name,
                            operand |-> IF r.written = NoWrite THEN last.operand
                                        ELSE r.written,
                            order |-> r.order, decimal |-> cpu.p.d]
    /\ ops' = ops + 1
    /\ UNCHANGED <<emu, acp, bus, aram, count, audio, data, bank_shifter, bank_mask, flash>>
    /\ UNCHANGED busVars
    /\ UNCHANGED viaVars

InstrNext == Execute

SpecInstr == InstrInit /\ [][InstrNext]_vars

----------------------------------------------------------------------------
(* The interrupt-edge check.                                               *)

\* the places of event e in an instruction's order
Places(order, e) == {i \in DOMAIN order : order[i] = e}

\* the operand's final read or write
FinalAccess(order) ==
    CHOOSE i \in Places(order, "read") \cup Places(order, "write") :
        \A j \in Places(order, "read") \cup Places(order, "write") : j <= i

Executed == last.op \in Instructions

\* C25 as stated: every load, store and ALU instruction checks the interrupt
\* edge exactly once, after its addressing mode has resolved the operand
\* location and before the operand's final read or write.
C25_Original ==
    Executed =>
        /\ Cardinality(Places(last.order, "check_irq_edge")) = 1
        /\ \A i \in Places(last.order, "check_irq_edge") :
                /\ \A j \in Places(last.order, "get_operand") : j < i
                /\ i < FinalAccess(last.order)

\* ORA, AND, EOR and BIT check before the addressing mode resolves
LogicInstructions == {"ora", "and", "eor", "bit"}

\* C25, amended: every load, store and ALU instruction checks the interrupt
\* edge before the operand's final read or write; that is its only check,
\* but for ADC and SBC in decimal mode, which check once more after the
\* read; the check comes after the addressing mode has resolved the operand
\* location in every instruction but ORA, AND, EOR and BIT, where it comes
\* before.
C25_Checks ==
    Executed =>
        LET checks == Places(last.order, "check_irq_edge")
            first == CHOOSE i \in checks : \A j \in checks : i <= j
            twice == last.op \in {"adc", "sbc"} /\ last.decimal
        IN  /\ checks # {}
            /\ first < FinalAccess(last.order)
            /\ Cardinality(checks) = (IF twice THEN 2 ELSE 1)
            /\ twice => \E i \in checks : i > FinalAccess(last.order)
            /\ (\A j \in Places(last.order, "get_operand") : j < first)
                    <=> last.op \notin LogicInstructions

\* a decimal ADC has checked the interrupt edge twice
C25_DecimalTwice ==
    /\ last.op = "adc"
    /\ last.decimal
    /\ Cardinality(Places(last.order, "check_irq_edge")) = 2

\* an ORA has checked the interrupt edge before resolving its operand
C25_LogicEarly ==
    /\ last.op = "ora"
    /\ \E i \in Places(last.order, "check_irq_edge") :
            \E j \in Places(last.order, "get_operand") : i < j


----------------------------------------------------------------------------
(* The DMA manager specification: the SDK's Console and DmaManager         *)
(* (sdk-template, console.rs and video_dma) running on the bus. Here the   *)
(* variable sdk holds the console: the slot video_dma, the flag bytes the  *)
(* console keeps, the guards that were handed out and not dropped, and the *)
(* position in call_main.                                                  *)

\* scr.rs, VideoFlags and BankFlags
DMA_ENABLE == 1
DMA_PAGE_OUT == 2
DMA_NMI == 4
DMA_COLORFILL == 8
DMA_GCARRY == 16
DMA_CPU_TO_VRAM == 32
DMA_IRQ == 64
DMA_OPAQUE == 128
FRAMEBUFFER_SELECT == 8

\* bitflags insert, remove and toggle
insert(flags, mask) == Or8(flags, mask)
remove(flags, mask) == And8(flags, Not8(mask))
toggle(flags, mask) == Xor8(flags, mask)

\* write_video_flags: the volatile store to 0x2007
write_video_flags(m, flags) == write_byte(m, DMA_FLAGS_ADDR, flags)

\* VideoDma::blitter with Framebuffers::blitter and SpriteMem::blitter
VideoDmaBlitter(from, m, vf) ==
    IF from = "DmaBlit" THEN [bus |-> m, vf |-> vf]
    ELSE [bus |-> write_video_flags(m, insert(vf, DMA_ENABLE)),
          vf |-> insert(vf, DMA_ENABLE)]

\* VideoDma::framebuffers with Blitter::framebuffers and SpriteMem::framebuffers
VideoDmaFramebuffers(from, m, vf) ==
    LET after == IF from = "DmaBlit"
                 THEN insert(remove(vf, DMA_ENABLE), DMA_CPU_TO_VRAM)
                 ELSE insert(vf, DMA_CPU_TO_VRAM)
    IN  IF from = "DmaFb" THEN [bus |-> m, vf |-> vf]
        ELSE [bus |-> write_video_flags(m, after), vf |-> after]

\* VideoDma::sprite_mem with Blitter::sprite_mem and Framebuffers::sprite_mem
VideoDmaSpriteMem(from, m, vf) ==
    LET after == IF from = "DmaBlit"
                 THEN remove(vf, DMA_ENABLE + DMA_CPU_TO_VRAM)
                 ELSE remove(vf, DMA_CPU_TO_VRAM)
    IN  IF from = "DmaSprites" THEN [bus |-> m, vf |-> vf]
        ELSE [bus |-> write_video_flags(m, after), vf |-> after]

NoDma == "None"

\* Option::take with the slot left as it was
take_copy(slot) == [value |-> slot, slot |-> slot]

\* Option::take: the value, and None left in the slot
take(slot) == [value |-> slot, slot |-> NoDma]

\* the guard's Drop: what it puts back into the slot
Dropped(guard) ==
    CASE guard = "BlitterGuard" -> "DmaBlit"
      [] guard = "FramebuffersGuard" -> "DmaFb"
      [] guard = "SpriteMemGuard" -> "DmaSprites"

\* Console::init: the console's fields
ConsoleInit ==
    [bank_flags |-> FRAMEBUFFER_SELECT,
     video_flags |-> DMA_NMI + DMA_IRQ + DMA_GCARRY + DMA_OPAQUE + DMA_PAGE_OUT,
     video_dma |-> "DmaSprites", guards |-> <<>>, boot |-> 1]

\* call_main between Console::init and main: a blitter guard that draws a
\* square and is dropped, a blitter guard that sets the quadrant and is dropped
BootScript ==
    <<"blitter", "draw_square", "drop", "blitter", "set_vram_quad", "drop">>

InMain == sdk.boot > Len(BootScript)

\* the call is the next one of call_main, or main makes it
May(call) == IF InMain THEN TRUE ELSE BootScript[sdk.boot] = call

NextCall == IF InMain THEN sdk.boot ELSE sdk.boot + 1

\* what 0x2007 holds when the console is initialised: the power-on value, or
\* what an earlier run left there before a reset of the CPU
DmaFlagsAtBoot == {DmaFlagsDefault, DMA_CPU_TO_VRAM, 0, DMA_ENABLE}

DmaInit ==
    /\ blit = BlitterDefault
    /\ regs = BlitterRegistersDefault
    /\ dma_flags \in DmaFlagsAtBoot
    /\ banking_register = 0
    /\ framebuffers = [fb \in 0..1 |-> <<>>]
    /\ vram_banks = <<>>
    /\ vram_quad_written = {}
    /\ via_regs = ViaRegsDefault
    /\ bank_shifter = 0
    /\ bank_mask = 126
    /\ bus = [CpuBusDefault EXCEPT !.cartridge = "Cart2m"]
    /\ data = [image |-> "banked", fills |-> {}, cells |-> <<>>]
    /\ flash = [state |-> [kind |-> "Idle", command |-> NoCommand], buffer |-> <<>>]
    /\ ticks = 0
    /\ quiet = FALSE
    /\ wlog = {}
    /\ ops = 0
    /\ emu = [EmulatorInit EXCEPT !.play_state = "Playing"]
    /\ cpu = [CpuNew EXCEPT !.state = "Running"]
    /\ acp = AcpNew
    /\ aram = AramDefault
    /\ count = CountZero
    /\ audio = AudioOutNone(TARGET_SAMPLE_RATE)
    /\ sdk = ConsoleInit
    /\ last = [op |-> "init"]

DmaRest ==
    UNCHANGED <<blit, ticks, quiet, wlog, ops, data, flash, emu, cpu, acp, count, audio>>

\* DmaManager::blitter, ::framebuffers and ::sprite_mem: the slot is taken;
\* None ends the call, otherwise the hardware is switched and a guard made.
\* The slot is empty while a guard is held, and stays so when it is forgotten
Request(call, guard, vf, switch(_, _, _)) ==
    /\ May(call)
    /\ LET t == take(sdk.video_dma)
           r == switch(t.value, TheBus, vf)
       IN  IF t.value = NoDma
           THEN /\ sdk' = [sdk EXCEPT !.video_flags = vf, !.boot = NextCall]
                /\ last' = [op |-> call, guard |-> NoDma]
                /\ SetBus(TheBus)
           ELSE /\ sdk' = [sdk EXCEPT !.video_dma = t.slot, !.video_flags = r.vf,
                                      !.guards = Append(@, guard), !.boot = NextCall]
                /\ last' = [op |-> call, guard |-> guard]
                /\ SetBus(r.bus)
    /\ DmaRest

DmaBlitter == Request("blitter", "BlitterGuard", sdk.video_flags, VideoDmaBlitter)

\* Console::blitter: colorfill off in the console's flags, then DmaManager::blitter
ConsoleBlitter ==
    /\ InMain
    /\ Request("blitter", "BlitterGuard", remove(sdk.video_flags, DMA_COLORFILL),
               VideoDmaBlitter)

DmaFramebuffers ==
    Request("framebuffers", "FramebuffersGuard", sdk.video_flags, VideoDmaFramebuffers)

DmaSpriteMem ==
    Request("sprite_mem", "SpriteMemGuard", sdk.video_flags, VideoDmaSpriteMem)

\* a guard goes out of scope
DropGuard ==
    /\ May("drop")
    /\ \E i \in DOMAIN sdk.guards :
            /\ sdk' = [sdk EXCEPT !.video_dma = Dropped(sdk.guards[i]),
                                  !.guards = SubSeq(@, 1, i - 1) \o
                                             SubSeq(@, i + 1, Len(@)),
                                  !.boot = NextCall]
            /\ last' = [op |-> "drop", guard |-> sdk.guards[i]]
    /\ SetBus(TheBus)
    /\ DmaRest

HoldsBlitter == \E i \in DOMAIN sdk.guards : sdk.guards[i] = "BlitterGuard"

RECURSIVE Stores(_, _)
\* the volatile stores of a sequence of <<address, byte>>, in order
Stores(m, writes) ==
    IF writes = <<>> THEN m
    ELSE Stores(write_byte(m, writes[1][1], writes[1][2]), Tail(writes))

DrawArgs == {<<0, 0, 10, 10, 170>>, <<5, 6, 2, 3, 255>>}

\* BlitterGuard::draw_square
DrawSquare ==
    /\ May("draw_square")
    /\ HoldsBlitter
    /\ \E a \in DrawArgs :
        /\ InMain \/ a = <<0, 0, 10, 10, 170>>
        /\ LET vf == insert(sdk.video_flags, DMA_COLORFILL)
           IN  /\ sdk' = [sdk EXCEPT !.video_flags = vf, !.boot = NextCall]
               /\ SetBus(Stores(write_video_flags(TheBus, vf),
                                <<<<WINDOW_BASE + 2, a[1]>>, <<WINDOW_BASE + 3, a[2]>>,
                                  <<WINDOW_BASE + 4, a[3]>>, <<WINDOW_BASE + 5, a[4]>>,
                                  <<WINDOW_BASE + 7, a[5]>>, <<START_ADDR, 1>>>>))
        /\ last' = [op |-> "draw_square", args |-> a]
    /\ DmaRest

\* BlitterGuard::draw_sprite
DrawSprite ==
    /\ InMain
    /\ HoldsBlitter
    /\ \E a \in DrawArgs :
        /\ LET vf == remove(sdk.video_flags, DMA_COLORFILL)
           IN  /\ sdk' = [sdk EXCEPT !.video_flags = vf]
               /\ SetBus(Stores(write_video_flags(TheBus, vf),
                                <<<<WINDOW_BASE, a[5]>>, <<WINDOW_BASE + 1, a[5]>>,
                                  <<WINDOW_BASE + 2, a[1]>>, <<WINDOW_BASE + 3, a[2]>>,
                                  <<WINDOW_BASE + 4, a[3]>>, <<WINDOW_BASE + 5, a[4]>>,
                                  <<START_ADDR, 1>>>>))
        /\ last' = [op |-> "draw_sprite", args |-> a]
    /\ DmaRest

\* SpriteQuadrant::value_gx and value_gy: 0 or 128 each
QuadrantValues == {<<0, 0>>, <<128, 0>>, <<0, 128>>, <<128, 128>>}

\* BlitterGuard::set_vram_quad
SetVramQuad ==
    /\ May("set_vram_quad")
    /\ HoldsBlitter
    /\ \E q \in QuadrantValues :
        /\ InMain \/ q = <<0, 0>>
        /\ sdk' = [sdk EXCEPT !.boot = NextCall]
        /\ SetBus(Stores(TheBus,
                         <<<<WINDOW_BASE, q[1]>>, <<WINDOW_BASE + 1, q[2]>>,
                           <<WINDOW_BASE + 4, 1>>, <<WINDOW_BASE + 5, 1>>,
                           <<START_ADDR, 1>>, <<START_ADDR, 0>>>>))
        /\ last' = [op |-> "set_vram_quad", args |-> q]
    /\ DmaRest

\* Console::flip_framebuffers: both flag bytes toggled and stored
FlipFramebuffers ==
    /\ InMain
    /\ LET bf == toggle(sdk.bank_flags, FRAMEBUFFER_SELECT)
           vf == toggle(sdk.video_flags, DMA_PAGE_OUT)
       IN  /\ sdk' = [sdk EXCEPT !.bank_flags = bf, !.video_flags = vf]
           /\ SetBus(write_video_flags(write_byte(TheBus, BANKING_ADDR, bf), vf))
    /\ last' = [op |-> "flip_framebuffers"]
    /\ DmaRest

DmaNext ==
    \/ DmaBlitter
    \/ ConsoleBlitter
    \/ DmaFramebuffers
    \/ DmaSpriteMem
    \/ DropGuard
    \/ DrawSquare
    \/ DrawSprite
    \/ SetVramQuad
    \/ FlipFramebuffers

SpecDma == DmaInit /\ [][DmaNext]_vars

----------------------------------------------------------------------------
(* One guard, and the window it goes with.                                 *)

IsRequest == last'.op \in {"blitter", "framebuffers", "sprite_mem"}

\* the window mapping a guard stands for
GuardMap(guard) ==
    CASE guard = "BlitterGuard" -> "BlitterRegisters"
      [] guard = "FramebuffersGuard" -> "FrameBuffer"
      [] guard = "SpriteMemGuard" -> "VRAM"

GuardInv ==
    /\ Len(sdk.guards) <= 1
    /\ \A i \in DOMAIN sdk.guards :
        /\ get_graphics_memory_map(dma_flags) = GuardMap(sdk.guards[i])
        /\ sdk.guards[i] = "BlitterGuard" => dma_enable(dma_flags)
        /\ sdk.guards[i] = "FramebuffersGuard" =>
                ~dma_enable(dma_flags) /\ dma_cpu_to_vram(dma_flags)
        /\ sdk.guards[i] = "SpriteMemGuard" =>
                ~dma_enable(dma_flags) /\ ~dma_cpu_to_vram(dma_flags)

GuardStep ==
    /\ (IsRequest /\ sdk.guards # <<>>) =>
            /\ last'.guard = NoDma
            /\ sdk'.guards = sdk.guards
            /\ dma_flags' = dma_flags
    /\ last'.op = "drop" =>
            /\ sdk'.guards = <<>>
            /\ sdk'.video_dma # NoDma
    /\ (IsRequest /\ sdk.video_dma # NoDma) => last'.guard # NoDma

\* C26: the DmaManager has at most one guard out at a time: a request while
\* a guard is out returns None, a dropped guard makes the hardware available
\* again; and whenever a guard is held, the flags in 0x2007 select its window:
\* DMA-enable set for the blitter guard, DMA-enable clear and CPU-to-VRAM set
\* for the framebuffer guard, both clear for the sprite-memory guard.
C26_OneGuard == []GuardInv /\ [][GuardStep]_vars

\* main holds the sprite-memory guard it asked for after call_main left the
\* blitter in the slot: 0x2007 was rewritten with both flags clear
C26_Witness ==
    /\ InMain
    /\ sdk.guards = <<"SpriteMemGuard">>
    /\ last.op = "sprite_mem"
    /\ sdk.video_dma = NoDma
    /\ ~dma_enable(dma_flags)
    /\ ~dma_cpu_to_vram(dma_flags)

\* a request made while a guard is out has returned None
C26_Refused ==
    /\ InMain
    /\ sdk.guards = <<"FramebuffersGuard">>
    /\ last.op = "blitter"
    /\ last.guard = NoDma

\* Between Console::init and the first request of call_main the slot says
\* sprite memory while 0x2007 still holds the power-on flags, which select
\* the blitter registers: Console::init stores nothing to 0x2007
C26_InitUnwritten ==
    /\ sdk.boot = 1
    /\ sdk.video_dma = "DmaSprites"
    /\ get_graphics_memory_map(dma_flags) = "BlitterRegisters"


----------------------------------------------------------------------------
(* The latched parameters of a blit.                                       *)

\* what the engine latched on the start cycle
Parameters(b) ==
    [src_x |-> b.src_x, src_y |-> b.src_y, dst_x |-> b.dst_x, dst_y |-> b.dst_y,
     width |-> b.width, height |-> b.height, flip_x |-> b.flip_x,
     flip_y |-> b.flip_y, color |-> b.color, color_fill |-> b.color_fill]

\* the same read from the registers and the DMA flags
Sampled(r, f) == Parameters(LatchStart(BlitterDefault, r, f, TRUE))

\* between two engine cycles of a blit the cursor is inside a line; an idle
\* engine's cursor is at the origin
CursorInv ==
    IF blit.blitting THEN blit.offset_x >= 1
    ELSE blit.offset_x = 0 /\ blit.offset_y = 0

\* a step from a blitting engine keeps what was latched; the start cycle
\* latches what the registers and the flags hold on that cycle
LatchedStep ==
    /\ blit.blitting => Parameters(blit') = Parameters(blit)
    /\ (last'.op = "cycle" /\ last'.latched) => Parameters(blit') = Sampled(regs, dma_flags)

\* C27: from the start cycle until the engine is idle again every latched
\* parameter (src_x, src_y, dst_x, dst_y, width, height, flip_x, flip_y,
\* colour, fill mode) keeps the value sampled on the start cycle, whatever the
\* CPU writes to the registers meanwhile: between engine cycles of a blit
\* offset_x is at least 1, so the Y-axis parameters are sampled again only on
\* the start cycle.
C27_Latched == []CursorInv /\ [][LatchedStep]_vars

\* the CPU rewrote HEIGHT during the blit and the engine has since begun
\* the next line: the latched height is still the one of the start cycle
C27_Witness ==
    /\ blit.blitting
    /\ last.op = "cycle"
    /\ ~last.latched
    /\ blit.height # regs.height % 128
    /\ blit.offset_y >= 1


----------------------------------------------------------------------------
(* The length of a blit. The scheduler calls Blitter::cycle in every       *)
(* iteration of its loop, so an engine cycle that is due is taken.         *)

SpecBlit == Init /\ [][Next]_vars /\ WF_vars(BlitterCycle)

\* the pixel cycles of a blit of the latched size
PixelCycles(b) == b.width * b.height

Sized(b) == b.width >= 1 /\ b.height >= 1

\* while a blit runs, every engine cycle since the start was a pixel cycle,
\* and there were at most width * height of them
LengthInv ==
    (blit.blitting /\ Sized(blit)) =>
        /\ blit.cycles = ticks
        /\ blit.cycles >= 1
        /\ blit.cycles <= PixelCycles(blit)

\* an engine cycle of a running blit is a pixel cycle, until width * height
\* were made: the next cycle is none and leaves the engine idle
LengthStep ==
    (last'.op = "cycle" /\ blit.blitting /\ Sized(blit)) =>
        IF blit.cycles < PixelCycles(blit)
        THEN blit'.blitting /\ blit'.cycles = blit.cycles + 1
        ELSE ~blit'.blitting /\ blit'.cycles = PixelCycles(blit)
                /\ ticks' = PixelCycles(blit) + 1

\* the start cycle is the first pixel cycle
StartStep ==
    (last'.op = "cycle" /\ last'.latched /\ Sized(blit')) =>
        blit'.blitting /\ blit'.cycles = 1

\* C28: every blit terminates: once started the engine is idle again after
\* finitely many engine cycles, whatever happens to DMA-enable, wherever the
\* destination lies, transparent or not, whatever the CPU writes meanwhile;
\* with width >= 1 and height >= 1 it makes exactly width * height pixel
\* cycles, one per engine cycle from the start cycle on, and is idle after the
\* next cycle.
C28_Terminates ==
    /\ []LengthInv
    /\ [][LengthStep /\ StartStep]_vars
    /\ (blit.blitting ~> ~blit.blitting)

\* a 2 x 2 blit during which the CPU cleared DMA-enable is over: four pixel
\* cycles, idle after the fifth cycle
C28_Witness ==
    /\ ~blit.blitting
    /\ last.op = "cycle"
    /\ blit.width = 2
    /\ blit.height = 2
    /\ blit.cycles = 4
    /\ ticks = 5
    /\ ~dma_enable(dma_flags)


----------------------------------------------------------------------------
(* The completion flag.                                                    *)

\* the cycle ran the end of a blit (lines 109-118): of a running one, or of
\* one of no height that it started itself
Completes == IsCycle /\ (blit.blitting \/ last'.latched) /\ ~blit'.blitting

\* the start register was read or written since the last engine cycle
Addressed == regs.start.addressed

\* a bus access to 0x4006 that reaches the blitter registers
StartAccess ==
    /\ last'.op \in {"read", "write"}
    /\ last'.address = START_ADDR
    /\ get_graphics_memory_map(dma_flags) = "BlitterRegisters"

FlagStep ==
    \* the engine cycle alone changes the flag
    /\ ~IsCycle => blit'.irq_trigger = blit.irq_trigger
    \* set: by the end of a blit with the IRQ flag set, and by that only
    /\ IsCycle => (blit'.irq_trigger <=>
                        \/ Completes /\ dma_irq(dma_flags)
                        \/ blit.irq_trigger /\ ~Addressed)
    \* an access to 0x4006 through the register window is seen by the next
    \* cycle, whatever was read or written; no other access is
    /\ StartAccess => regs'.start.addressed
    /\ (last'.op \in {"read", "write"} /\ ~StartAccess) =>
            regs'.start.addressed = regs.start.addressed
    /\ IsCycle => ~regs'.start.addressed

\* C29: irq_trigger is set only by the engine cycle that ends a blit, and
\* only with the IRQ DMA flag set on that cycle. It is cleared by the engine
\* cycle that follows an access to 0x4006 made while the window maps the
\* blitter registers, a read or a write of any value, and by no other step of
\* the bus and the engine; if that cycle also ends a blit the flag is set
\* after it.
C29_CompletionFlag == [][FlagStep]_vars

\* 0x4006 was addressed, with bit 0 clear, after a finished 2 x 2 blit: the
\* next engine cycle has cleared the flag the blit had set
C29_Witness ==
    /\ last.op = "cycle"
    /\ last.start.addressed
    /\ ~last.start.data
    /\ ~blit.blitting
    /\ blit.cycles = 4
    /\ ticks = 5
    /\ dma_irq(dma_flags)
    /\ ~blit.irq_trigger

\* the cycle that ends the blit also sees an access to 0x4006: the flag is set
C29_SameCycle ==
    /\ last.op = "cycle"
    /\ last.start.addressed
    /\ ~last.latched
    /\ ~blit.blitting
    /\ blit.cycles = 4
    /\ blit.irq_trigger
    /\ ops = 2
    /\ quiet = FALSE


----------------------------------------------------------------------------
(* Unlock bypass: the mode after AAA:AA, 555:55, AAA:20.                   *)

UnlockBypassEnterSeq ==
    EndsWith(Received, <<W(2730, 170), W(1365, 85), W(2730, 32)>>)

\* the two-write reset of the mode: X:90 then Y:00
UnlockBypassResetSeq ==
    /\ Len(Received) >= 2
    /\ Received[Len(Received) - 1].data = 144
    /\ Received[Len(Received)].data = 0

\* C31 as stated: the write that completes AAA:AA, 555:55, AAA:20 leaves the
\* machine in UnlockBypass, and from UnlockBypass only the reset X:90, Y:00
\* leads back to Idle.
C31_Original ==
    [][IsCartWrite =>
          /\ UnlockBypassEnterSeq => flash'.state.kind = "UnlockBypass"
          /\ (flash.state.kind = "UnlockBypass" /\ ~UnlockBypassResetSeq)
                => flash'.state.kind = "UnlockBypass"]_vars

\* what the code does: the entry command is recognised and the machine is Idle
\* with an empty history when the write returns
C31_EnterEndsIdle ==
    [][(IsCartWrite /\ UnlockBypassEnterSeq) =>
          /\ last'.command.kind = "UnlockBypassEnter"
          /\ flash'.state.kind = "Idle"
          /\ flash'.buffer = <<>>
          /\ data' = data]_vars

\* the machine is never left in UnlockBypass between two writes
C31_NeverBypass == flash.state.kind # "UnlockBypass"

\* the entry sequence has just been completed
C31_Entered ==
    /\ last.op = "cart" /\ last.command.kind = "UnlockBypassEnter"
    /\ flash.state.kind = "Idle"


----------------------------------------------------------------------------
(* The two-write program X:A0, addr:data.                                  *)

\* the writes received end with X:A0, addr:data, X not a command address
ShortProgramSeq ==
    /\ Len(Received) >= 2
    /\ Received[Len(Received) - 1].data = 160
    /\ Received[Len(Received) - 1].address \notin {2730, 1365}

SameFlash == \A q \in FlashPoints({}) : DataGet(data', q) = DataGet(data, q)

\* C32 as stated: in Idle a flash byte changes only on the write that
\* completes a full command sequence (byte program, chip erase, block erase);
\* the two-write program X:A0, addr:data changes no byte in Idle.
C32_Original ==
    [][(IsCartWrite /\ flash.state.kind = "Idle"
          /\ ~(ProgramSeq \/ ChipEraseSeq \/ BlockEraseSeq)) => SameFlash]_vars

\* what the code does: in Idle the two-write program is executed as a program
C32_ShortProgramInIdle ==
    [][(IsCartWrite /\ flash.state.kind = "Idle" /\ ShortProgramSeq
          /\ ~(ProgramSeq \/ ChipEraseSeq \/ BlockEraseSeq)) =>
          /\ last'.command.kind = "UnlockBypassProgram"
          /\ LET cell == ProgramCell(bank_mask, last'.address)
             IN  DataGet(data', cell) = And8(DataGet(data, cell), last'.data)]_vars

\* a flash byte changes only on a write that executes a command
C32_OnlyCommands ==
    [][(IsCartWrite /\ ~SameFlash) =>
          last'.command.kind \in {"Program", "UnlockBypassProgram", "ChipErase",
                                  "BlockErase"}]_vars

\* a two-write program has just changed a byte with no handshake before it
C32_Programmed ==
    /\ last.op = "cart" /\ last.command.kind = "UnlockBypassProgram"
    /\ ops = 2 /\ data.image = "erased"
    /\ DataGet(data, ProgramCell(bank_mask, last.address)) = 15


----------------------------------------------------------------------------
(* A byte program seen through Cartridge2M::read_byte.                     *)

\* cartridge addresses compared around a program at address a: the address in
\* both windows, its neighbours, and the ends of the windows
ReadPoints(a) ==
    LET low == a % BANK_SIZE
    IN  {q \in {low, low + BANK_SIZE, low + 1, low + BANK_SIZE + 1,
                0, BANK_SIZE - 1, BANK_SIZE, 2 * BANK_SIZE - 1} :
            q < 2 * BANK_SIZE}

ReadsAnd(a) ==
    CartRead(data', bank_mask, a) = And8(CartRead(data, bank_mask, a), last'.data)

OtherReadsSame(a) ==
    \A q \in ReadPoints(a) \ {a} :
       CartRead(data', bank_mask, q) = CartRead(data, bank_mask, q)

\* C33 as stated: after a byte program of d at a cartridge address a in
\* 0x0000-0x7FFF, under any bank selection, read_byte(a) is its old value AND d
\* and read_byte of every other address is unchanged.
C33_Original ==
    [][(IsCartWrite /\ ProgramSeq) =>
          ReadsAnd(last'.address) /\ OtherReadsSame(last'.address)]_vars

\* what the code does: the programmed cell is in the selected bank whatever
\* window the address is in, so the byte read in the low window at
\* a mod 0x4000 is the one that changes, and with it the byte of the high
\* window exactly when the selected bank is 127
C33_SelectedBank ==
    [][(IsCartWrite /\ ProgramSeq) =>
          LET a == last'.address
              low == a % BANK_SIZE
          IN  /\ ReadsAnd(low)
              /\ IF bank_mask % 128 = 127
                 THEN ReadsAnd(low + BANK_SIZE)
                 ELSE CartRead(data', bank_mask, low + BANK_SIZE)
                         = CartRead(data, bank_mask, low + BANK_SIZE)
              /\ \A q \in ReadPoints(a) \ {low, low + BANK_SIZE} :
                    CartRead(data', bank_mask, q) = CartRead(data, bank_mask, q)]_vars

\* a program at an address of the high window has changed the byte read in the
\* low window and not the byte read at the address
C33_WrongWindow ==
    /\ last.op = "cart" /\ last.command.kind = "Program"
    /\ last.address = 24581 /\ last.data = 240
    /\ data.image = "erased" /\ bank_mask % 128 # 127
    /\ CartRead(data, bank_mask, 24581) = 255
    /\ CartRead(data, bank_mask, 24581 - BANK_SIZE) = 240


----------------------------------------------------------------------------
(* The block-erase specification: every bank, and the last write of a      *)
(* block erase at addresses over the whole window.                         *)

EraseBanks == 0..(NumBanks - 1)

\* the block address of the last write: both halves of the bank, the ends of
\* the 8KB blocks, and an address of the fixed window
EraseAddresses == {0, 291, 8191, 8192, 16383, 24581}

EraseInit ==
    /\ blit = BlitterDefault
    /\ regs = BlitterRegistersDefault
    /\ dma_flags = DmaFlagsDefault
    /\ banking_register = 0
    /\ framebuffers = [fb \in 0..1 |-> <<>>]
    /\ vram_banks = <<>>
    /\ vram_quad_written = {}
    /\ \E image \in InitImages :
          data = [image |-> image, fills |-> {}, cells |-> <<>>]
    /\ bank_shifter = 0
    /\ bank_mask \in EraseBanks
    /\ flash = [state |-> [kind |-> "Idle", command |-> NoCommand],
                buffer |-> ErasePrefix]
    /\ ticks = 0
    /\ quiet = FALSE
    /\ wlog = {}
    /\ last = [op |-> "init"]
    /\ ops = 0
    /\ via_regs = ViaRegsDefault
    /\ sdk = SdkIdle
    /\ EmulatorAtRest

\* the sixth write of the block erase
CpuBlockErase == \E a \in EraseAddresses : CartWrite(CART_BASE + a, 48)

EraseNext == CpuBlockErase

SpecErase == EraseInit /\ [][EraseNext]_vars

\* the flash byte a cartridge address of the banked window stands for
AddressedByte(mask, a) == (mask % 128) * BANK_SIZE + (a % BANK_SIZE)

InSpan(q, span) == span[1] <= q /\ q < span[2]

\* the ranges the step has filled
NewFills == data'.fills \ data.fills

\* C34 as stated: for every bank b in 0..127 and every block address a in the
\* last write of a block erase, the erased span contains the flash byte
\* b * 0x4000 + (a & 0x3FFF).
C34_Original ==
    [][(IsCartWrite /\ BlockEraseSeq) =>
          \E f \in NewFills : InSpan(AddressedByte(bank_mask, last'.address), f)]_vars

\* what the code does: the erased range is the block BLOCK_MAPPINGS gives the
\* selected bank, whatever the address of the last write
C34_AddressIgnored ==
    [][(IsCartWrite /\ BlockEraseSeq) =>
          LET k == BLOCK_MAPPINGS[bank_mask % 128].block_index
          IN  /\ last'.command.kind = "BlockErase"
              /\ \A q \in FlashPoints({TableSpan(k)}) :
                    (\E f \in NewFills : InSpan(q, f)) <=> InSpan(q, TableSpan(k))
              /\ k # 34]_vars

\* banks 0..125 are inside the block that is erased; of bank 126 only the
\* first 8KB is, and of bank 127 nothing
C34_Banks ==
    [][(IsCartWrite /\ BlockEraseSeq) =>
          LET b == bank_mask % 128
              inside == \E f \in NewFills :
                           InSpan(AddressedByte(bank_mask, last'.address), f)
          IN  inside <=> (b <= 125 \/ (b = 126 /\ last'.address % BANK_SIZE < 8192))]_vars

\* a block erase with bank 126 selected and an address in the second 8KB of
\* the bank has erased the first 8KB
C34_OtherBlock ==
    /\ last.op = "cart" /\ last.command.kind = "BlockErase"
    /\ bank_mask = 126 /\ last.address = 8192
    /\ data.fills = {TableSpan(32)}
    /\ data.image = "ramp"
    /\ DataGet(data, AddressedByte(126, 8192)) = ImageByte("ramp", AddressedByte(126, 8192))


----------------------------------------------------------------------------
(* The source specification: a copy-mode blit in progress, the CPU's       *)
(* stores to VRAM through the window, and the engine's read of a pixel.    *)

MaxSourceCycles == 1

SourceXs == {0, 127, 130, 255}
SourceYs == {3, 128}
OffsetXs == {1, 16, 17}
OffsetYs == {0, 15, 18}
\* the byte the CPU stores
StoredBytes == {77}

\* DMA disabled, window on VRAM, copy mode, opaque; graphics-carry set or clear
SourceFlags == {128 + 16, 128}

\* the banking register: VRAM page 0 or 7
SourcePages == {0, 7}

\* GX and GY as the CPU has left them: one of the four quadrants
QuadrantRegs == {0, 128}

SourceInit ==
    /\ \E gx \in QuadrantRegs, gy \in QuadrantRegs, fx \in BOOLEAN, fy \in BOOLEAN,
          x \in SourceXs, y \in SourceYs, ox \in OffsetXs, oy \in OffsetYs :
          /\ regs = [BlitterRegistersDefault EXCEPT
                        !.gx = gx, !.gy = gy,
                        !.width = IF fx THEN 255 ELSE 127,
                        !.height = IF fy THEN 255 ELSE 127]
          /\ blit = [BlitterDefault EXCEPT
                        !.src_x = x, !.src_y = y, !.width = 127, !.height = 127,
                        !.flip_x = fx, !.flip_y = fy, !.offset_x = ox,
                        !.offset_y = oy, !.color = Not8(160), !.blitting = TRUE]
    /\ dma_flags \in SourceFlags
    /\ banking_register \in SourcePages
    /\ framebuffers = [fb \in 0..1 |-> <<>>]
    /\ vram_banks = <<>>
    /\ vram_quad_written = {}
    /\ CartridgeLoaded("zero")
    /\ ticks = 0
    /\ quiet = FALSE
    /\ wlog = {}
    /\ last = [op |-> "init"]
    /\ ops = 0
    /\ via_regs = ViaRegsDefault
    /\ sdk = SdkIdle
    /\ EmulatorAtRest

\* the coordinates the engine reads at its next pixel
NextSourceX == SourceCoord(blit.src_x, blit.offset_x, blit.flip_x, dma_gcarry(dma_flags))
NextSourceY == SourceCoord(blit.src_y, blit.offset_y, blit.flip_y, dma_gcarry(dma_flags))

\* the window offset of a coordinate: (y mod 128) * 128 + (x mod 128)
WindowOffset(x, y) == (y % 128) * 128 + (x % 128)

\* the CPU stores a byte in VRAM through the window, at the offset of the
\* pixel the engine reads next or at the byte after it
CpuVramStore ==
    /\ get_graphics_memory_map(dma_flags) = "VRAM"
    /\ \E o \in {WindowOffset(NextSourceX, NextSourceY),
                 (WindowOffset(NextSourceX, NextSourceY) + 1) % (128 * 128)} :
          \E d \in StoredBytes : BusWrite(WINDOW_BASE + o, d)

\* the CPU enables DMA
CpuEnableDma ==
    /\ ~dma_enable(dma_flags)
    /\ BusWrite(DMA_FLAGS_ADDR, dma_flags + 1)

\* one engine cycle
SourceCycle ==
    /\ ticks < MaxSourceCycles
    /\ BlitterCycle

SourceNext ==
    \/ CpuVramStore
    \/ CpuEnableDma
    \/ SourceCycle

SpecSource == SourceInit /\ [][SourceNext]_vars


\* an engine cycle that has read a pixel from VRAM and written it
PixelRead ==
    /\ IsCycle
    /\ blit.blitting /\ ~blit.color_fill /\ dma_enable(dma_flags)
    /\ last'.write # {}

\* the colour the cycle has read
ColorRead == (CHOOSE w \in last'.write : TRUE)[3]

\* the source coordinate of one axis as stated: the offset, or the offset
\* mod 16 without graphics-carry, subtracted from the complemented source on a
\* flipped axis and added to the source otherwise
StatedCoord(src, offset, flip, gcarry) ==
    LET applied == IF gcarry THEN offset ELSE offset % 16
    IN  IF flip THEN wrapping_sub(Not8(src), applied)
        ELSE wrapping_add(src, applied)

\* C35 as stated: in copy mode the pixel read is the one at the coordinates
\* computed per axis, the offset (or offset mod 16 without graphics-carry)
\* subtracted from the complemented source on a flipped axis and added on an
\* axis that is not flipped.
C35_Original ==
    [][PixelRead =>
          LET gcarry == dma_gcarry(dma_flags)
              x == StatedCoord(blit.src_x, blit.offset_x, blit.flip_x, gcarry)
              y == StatedCoord(blit.src_y, blit.offset_y, blit.flip_y, gcarry)
          IN  ColorRead = VramGet(vram_banks, vram_page(banking_register),
                                  SourceIndex(x, y))]_vars

\* what the code does: each axis follows the statement when graphics-carry is
\* set or the axis is not flipped; on a flipped axis without graphics-carry
\* the offset mod 16 is added to the complemented source
AxisAsCoded(src, offset, flip, gcarry) ==
    SourceCoord(src, offset, flip, gcarry)
       = IF gcarry \/ ~flip THEN StatedCoord(src, offset, flip, gcarry)
         ELSE wrapping_add(Not8(src), offset % 16)

C35_FlippedTileAdds ==
    blit.blitting =>
       /\ AxisAsCoded(blit.src_x, blit.offset_x, blit.flip_x, dma_gcarry(dma_flags))
       /\ AxisAsCoded(blit.src_y, blit.offset_y, blit.flip_y, dma_gcarry(dma_flags))

\* a flipped blit without graphics-carry has read the byte the CPU stored at
\* the coordinates the code computes
C35_ReadForward ==
    /\ last.op = "cycle" /\ \E w \in last.write : w[3] \in StoredBytes
    /\ blit.flip_x /\ ~dma_gcarry(dma_flags)
    /\ blit.src_x = 0 /\ blit.offset_x = 2


----------------------------------------------------------------------------
(* The VRAM layout as the CPU and the engine see it.                       *)

\* GX and GY selecting the quadrant of a coordinate
QuadrantOf(x, y) == [BlitterRegistersDefault EXCEPT !.gx = x, !.gy = y]

\* the byte a CPU access through the window reaches for the coordinate (x, y):
\* offset (y mod 128) * 128 + (x mod 128), quadrant selected by (x, y)
CpuByte(x, y) ==
    VramGet(vram_banks, vram_page(banking_register),
            VramWindowIndex(QuadrantOf(x, y), WINDOW_BASE + WindowOffset(x, y)))

\* the engine's index is the CPU's, and inside the page, along the row and
\* the column of a coordinate
SameIndex(x, y) ==
    /\ \A u \in 0..255 :
          /\ SourceIndex(u, y)
                = VramWindowIndex(QuadrantOf(u, y), WINDOW_BASE + WindowOffset(u, y))
          /\ SourceIndex(x, u)
                = VramWindowIndex(QuadrantOf(x, u), WINDOW_BASE + WindowOffset(x, u))
    /\ SourceIndex(x, y) \in 0..(256 * 256 - 1)

LayoutStep ==
    PixelRead =>
       /\ ColorRead = CpuByte(NextSourceX, NextSourceY)
       /\ SameIndex(NextSourceX, NextSourceY)

\* a CPU store through the window lands at the index the engine computes for
\* every coordinate of the selected quadrant with the stored offset
WindowStoreStep ==
    (last'.op = "write" /\ get_graphics_memory_map(dma_flags) = "VRAM"
       /\ last'.address >= WINDOW_BASE) =>
       LET o == last'.address - WINDOW_BASE
           x == (o % 128) + (IF regs.gx >= 128 THEN 128 ELSE 0)
           y == (o \div 128) + (IF regs.gy >= 128 THEN 128 ELSE 0)
       IN  /\ WindowOffset(x, y) = o
           /\ VramGet(vram_banks', vram_page(banking_register), SourceIndex(x, y))
                 = last'.data

\* C36: for every source coordinate (x, y) the byte the engine reads is the
\* byte the CPU reaches through the window at offset (y mod 128) * 128 +
\* (x mod 128) with GX/GY selecting the quadrant (x >= 128, y >= 128), and the
\* engine's VRAM index is inside the 256 x 256 page.
C36_Layout == [][LayoutStep /\ WindowStoreStep]_vars

\* the engine has read, outside quadrant 0, the byte the CPU stored through
\* the window
C36_Witness ==
    /\ last.op = "cycle" /\ \E w \in last.write : w[3] \in StoredBytes
    /\ vram_quadrant(regs) = 3
    /\ \E k \in DOMAIN vram_banks : k[2] >= 3 * 128 * 128
    /\ blit.flip_y /\ dma_gcarry(dma_flags)


----------------------------------------------------------------------------
(* The vblank specification: a Playing emulator, ticks of 20 ms run to     *)
(* their end, and a program that switches the vblank NMI off and on just   *)
(* before a vblank.                                                        *)

\* ticks in one behaviour
MaxVblankTicks == 2

\* microseconds between two ticks: 71590 cycles
VblankDeltas == {20000}

\* the program's stores to 0x2007, made in the last two 7-cycle steps before
\* a vblank: NMI bit clear, NMI bit set
VblankAccesses ==
    IF emu.clock_cycles_to_vblank <= 2 * 7
    THEN {NoAccess, Store(DMA_FLAGS_ADDR, 123), Store(DMA_FLAGS_ADDR, 127)}
    ELSE {NoAccess}

VblankInit == EmuInit

VblankTick ==
    /\ count.ticks < MaxVblankTicks
    /\ \E dt \in VblankDeltas : Tick(dt)

VblankIteration ==
    \E c \in FrameStepCycles(count.cpu), a \in VblankAccesses, k \in AcpStepCycles :
       Iteration(c, a, k)

VblankNext == VblankTick \/ VblankIteration

SpecVblank == VblankInit /\ [][VblankNext]_vars


\* the countdown is in 1..59659 and, with the cycles of the budget loop so
\* far, adds up to one more frame than the vblanks so far
CountdownInv ==
    /\ 0 < emu.clock_cycles_to_vblank
    /\ emu.clock_cycles_to_vblank <= VBLANK_CYCLES
    /\ count.cpu + emu.clock_cycles_to_vblank = VBLANK_CYCLES * (count.vblank + 1)

\* an iteration raises the NMI line once when it calls vblank with the vblank
\* NMI enabled, and never otherwise
NmiStep ==
    (last'.op = "iteration") =>
       LET called == count'.vblank - count.vblank
           enabled == dma_nmi(dma_flags')
       IN  /\ called \in {0, 1}
           /\ called = 1 <=> emu.clock_cycles_to_vblank <= last'.cpu_cycles
           /\ count'.nmi - count.nmi = IF called = 1 /\ enabled THEN 1 ELSE 0
           /\ (called = 1 /\ enabled) => cpu'.nmi
           /\ (called = 0 \/ ~enabled) => cpu'.nmi = cpu.nmi

\* C37: after every iteration of the budget loop the vblank countdown is in
\* 1..59659 and the loop's CPU cycles so far plus the countdown equal 59659
\* times the number of vblanks so far plus one (CPU steps cost fewer than
\* 59659 cycles); a vblank raises the NMI line once if the vblank NMI is
\* enabled at that moment, and not otherwise.
C37_NoDrift == []CountdownInv /\ [][NmiStep]_vars

\* the second vblank has come with an overshoot carried over from the first,
\* and one of the two found the NMI disabled
C37_Witness ==
    /\ last.op = "iteration"
    /\ count.vblank = 2 /\ count.nmi = 1
    /\ count.cpu = 2 * VBLANK_CYCLES + 4
    /\ emu.clock_cycles_to_vblank = VBLANK_CYCLES - 4


----------------------------------------------------------------------------
(* Reset commands over several ticks.                                      *)

\* every key of the input map has been seen by a tick since it was set: no
\* input event has arrived since the previous tick
NoNewInput ==
    \A i \in DOMAIN emu.input_state :
       emu.input_state[i].state \in {"Held", "Released"}

\* C38 as stated: a tick on which no new input event has arrived since the
\* tick that processed a SoftReset or HardReset command does not reset the
\* CPU and does not re-create the bus and the blitter.
C38_Original ==
    [][(IsTick /\ NoNewInput /\ (HasKey("SoftReset") \/ HasKey("HardReset"))) =>
          /\ UNCHANGED <<cpu, blit>>
          /\ MemoryUnchanged]_vars

\* what the code does: a reset key in the map resets on every tick, whatever
\* its state
C38_EveryTick ==
    [][(IsTick /\ NoNewInput) =>
          /\ OnlyKey("SoftReset") => cpu'.state = "Reset"
          /\ OnlyKey("HardReset") => PowerOn]_vars

\* the program has run after a soft reset and the next tick, with no new
\* input event, has reset the CPU again
C38_ResetAgain ==
    /\ last.op = "tick" /\ count.ticks = 2 /\ count.inputs = 1
    /\ count.cpu > 0
    /\ Len(emu.input_state) = 1 /\ emu.input_state[1].key = "SoftReset"
    /\ emu.input_state[1].state = "Released"
    /\ cpu.state = "Reset"


----------------------------------------------------------------------------
(* The controller ports: SystemControl::read_byte / peek_byte at 0x2008 and *)
(* 0x2009 and the SDK's GenesisGamepad::read.                              *)

GPR1 == 8200               \* 0x2008
GPR2 == 8201               \* 0x2009

ControllerButtons == {"Start", "A", "B", "C", "Up", "Down", "Left", "Right"}

\* the bits a set of pressed buttons pulls low
Low(pressed, button, bit) == IF button \in pressed THEN 2 ^ bit ELSE 0

\* SystemControl::peek_gamepad_byte; pads[1] is the code's gamepads[0]
peek_gamepad_byte(pads, port_1) ==
    LET gamepad == pads[IF port_1 THEN 1 ELSE 2]
        p == gamepad.pressed
    IN  IF ~gamepad.port_select
        THEN 255 - Low(p, "Start", 5) - Low(p, "A", 4)
        ELSE 255 - Low(p, "C", 5) - Low(p, "B", 4) - Low(p, "Up", 3)
                 - Low(p, "Down", 2) - Low(p, "Left", 1) - Low(p, "Right", 0)

\* a read that leaves the other port's select phase alone
read_gamepad_byte_keep(pads, port_1) ==
    LET this == IF port_1 THEN 1 ELSE 2
    IN  [byte |-> peek_gamepad_byte(pads, port_1),
         gamepads |-> [pads EXCEPT ![this].port_select = ~pads[this].port_select]]

\* SystemControl::read_gamepad_byte: the byte, and the pads after the read
read_gamepad_byte(pads, port_1) ==
    LET this == IF port_1 THEN 1 ELSE 2
        other == IF port_1 THEN 2 ELSE 1
    IN  [byte |-> peek_gamepad_byte(pads, port_1),
         gamepads |-> [pads EXCEPT ![other].port_select = FALSE,
                                   ![this].port_select = ~pads[this].port_select]]

\* SystemControl::read_byte, 0x2000..=0x2009
SystemControlRead(pads, address) ==
    CASE address = GPR1 -> read_gamepad_byte(pads, TRUE)
      [] address = GPR2 -> read_gamepad_byte(pads, FALSE)
      [] OTHER -> [byte |-> 0, gamepads |-> pads]

\* SystemControl::peek_byte
SystemControlPeek(pads, address) ==
    CASE address = GPR1 -> peek_gamepad_byte(pads, TRUE)
      [] address = GPR2 -> peek_gamepad_byte(pads, FALSE)
      [] OTHER -> 0

\* Buttons::idx
ButtonIdx(button) ==
    CASE button = "Start" -> 7
      [] button = "A" -> 6
      [] button = "B" -> 4
      [] button = "C" -> 5
      [] button = "Up" -> 3
      [] button = "Down" -> 2
      [] button = "Left" -> 1
      [] OTHER -> 0

\* ((!byte0 << 2) & 0b1100_0000) | (!byte1 & 0b0011_1111)
SdkButtons(byte0, byte1) ==
    And8((Not8(byte0) * 4) % 256, 192) + And8(Not8(byte1), 63)

\* GenesisGamepad<PORT>::read: three reads, then the button byte
GenesisGamepadReadResult(pads, pad, port) ==
    LET this == IF port = 1 THEN GPR1 ELSE GPR2
        other == IF port = 1 THEN GPR2 ELSE GPR1
        r0 == SystemControlRead(pads, other)
        r1 == SystemControlRead(r0.gamepads, this)
        r2 == SystemControlRead(r1.gamepads, this)
    IN  [gamepads |-> r2.gamepads,
         pad |-> [buttons |-> SdkButtons(r1.byte, r2.byte),
                  buttons_last |-> pad.buttons],
         byte0 |-> r1.byte, byte1 |-> r2.byte]

\* GenesisGamepad::is_pressed
PadIsPressed(pad, button) == Bit(pad.buttons, ButtonIdx(button))

\* CPU reads of the port registers outside the SDK's sequence, SDK reads
MaxPadReads == 2
MaxSdkReads == 1

\* the buttons held on the pad that is not enumerated in full
PadSample == {{}, {"Start", "B", "Left"}, {"A", "C", "Up", "Down", "Right"}}

\* GenesisGamepad::new
GenesisGamepadNew == [buttons |-> 0, buttons_last |-> 0]

PadInit ==
    /\ blit = BlitterDefault
    /\ regs = BlitterRegistersDefault
    /\ dma_flags = DmaFlagsDefault
    /\ banking_register = 0
    /\ framebuffers = [fb \in 0..1 |-> <<>>]
    /\ vram_banks = <<>>
    /\ vram_quad_written = {}
    /\ via_regs = ViaRegsDefault
    /\ CartridgeLoaded("zero")
    /\ ticks = 0
    /\ quiet = FALSE
    /\ wlog = {}
    /\ last = [op |-> "init"]
    /\ ops = 0
    /\ sdk = [pads |-> <<GenesisGamepadNew, GenesisGamepadNew>>, reads |-> 0]
    /\ emu = [EmulatorInit EXCEPT !.play_state = "Playing"]
    /\ cpu = [CpuNew EXCEPT !.state = "Running"]
    /\ acp = AcpNew
    /\ aram = AramDefault
    /\ count = CountZero
    /\ audio = AudioOutNone(TARGET_SAMPLE_RATE)
    /\ \E full \in SUBSET ControllerButtons, some \in PadSample,
          swap \in BOOLEAN, s1 \in BOOLEAN, s2 \in BOOLEAN :
          LET p1 == IF swap THEN some ELSE full
              p2 == IF swap THEN full ELSE some
          IN  bus = [CpuBusDefault EXCEPT
                        !.cartridge = "Cart2m",
                        !.gamepads = <<[pressed |-> p1, port_select |-> s1],
                                       [pressed |-> p2, port_select |-> s2]>>]

PadRest ==
    /\ UNCHANGED <<emu, cpu, acp, aram, count, audio>>
    /\ UNCHANGED <<data, bank_shifter, bank_mask, flash>>
    /\ UNCHANGED busVars
    /\ UNCHANGED via_regs

\* CpuBus::read_byte, 0x2000..=0x2009
CpuPadRead(address) ==
    /\ ops < MaxPadReads
    /\ LET r == SystemControlRead(bus.gamepads, address)
       IN  /\ bus' = [bus EXCEPT !.gamepads = r.gamepads]
           /\ last' = [op |-> "read", address |-> address, data |-> r.byte]
    /\ ops' = ops + 1
    /\ UNCHANGED sdk
    /\ PadRest

\* CpuBus::peek_byte_decorated, 0x2000..=0x2009: the debugger's view
CpuPadPeek(address) ==
    /\ last' = [op |-> "peek", address |-> address,
                data |-> SystemControlPeek(bus.gamepads, address)]
    /\ UNCHANGED <<bus, sdk, ops>>
    /\ PadRest

\* the program calls GenesisGamepad<port>::read
GenesisGamepadRead(port) ==
    /\ sdk.reads < MaxSdkReads
    /\ LET r == GenesisGamepadReadResult(bus.gamepads, sdk.pads[port], port)
       IN  /\ bus' = [bus EXCEPT !.gamepads = r.gamepads]
           /\ sdk' = [sdk EXCEPT !.pads[port] = r.pad, !.reads = @ + 1]
           /\ last' = [op |-> "pad", port |-> port, byte0 |-> r.byte0,
                       byte1 |-> r.byte1]
    /\ UNCHANGED ops
    /\ PadRest

PadCpuRead == \E address \in {GPR1, GPR2} : CpuPadRead(address)
PadPeek == \E address \in {GPR1, GPR2} : CpuPadPeek(address)
PadSdkRead == \E port \in {1, 2} : GenesisGamepadRead(port)

PadNext == PadCpuRead \/ PadPeek \/ PadSdkRead

SpecPad == PadInit /\ [][PadNext]_vars


\* the byte carrying Start and A, and the byte carrying C, B, Up, Down, Left,
\* Right, active low
StartAByte(pressed) == 255 - Low(pressed, "Start", 5) - Low(pressed, "A", 4)

DirectionsByte(pressed) ==
    255 - Low(pressed, "C", 5) - Low(pressed, "B", 4) - Low(pressed, "Up", 3)
        - Low(pressed, "Down", 2) - Low(pressed, "Left", 1) - Low(pressed, "Right", 0)

\* the SDK's read sequence on a port gets the two bytes of that port's pad in
\* order and reconstructs the pad's pressed set
SdkReadStep ==
    (last'.op = "pad") =>
       LET port == last'.port
           pressed == bus.gamepads[port].pressed
       IN  /\ last'.byte0 = StartAByte(pressed)
           /\ last'.byte1 = DirectionsByte(pressed)
           /\ {b \in ControllerButtons : PadIsPressed(sdk'.pads[port], b)} = pressed
           /\ sdk'.pads[port].buttons_last = sdk.pads[port].buttons
           /\ sdk'.pads[3 - port] = sdk.pads[3 - port]
           /\ \A q \in {1, 2} : bus'.gamepads[q].pressed = bus.gamepads[q].pressed

\* a read of a port's register toggles that port's select phase and resets
\* the other port's
ReadStep ==
    (last'.op = "read") =>
       LET port == IF last'.address = GPR1 THEN 1 ELSE 2
       IN  /\ bus'.gamepads[port].port_select = ~bus.gamepads[port].port_select
           /\ bus'.gamepads[3 - port].port_select = FALSE
           /\ \A q \in {1, 2} : bus'.gamepads[q].pressed = bus.gamepads[q].pressed
           /\ last'.data = IF bus.gamepads[port].port_select
                           THEN DirectionsByte(bus.gamepads[port].pressed)
                           ELSE StartAByte(bus.gamepads[port].pressed)

\* a peek returns the byte a read would and changes no select phase
PeekStep ==
    (last'.op = "peek") =>
       /\ bus' = bus
       /\ last'.data = SystemControlRead(bus.gamepads, last'.address).byte

\* C39: for either port and every prior select phase of both pads, the SDK's
\* read sequence (the other port's register once, this port's twice) gets
\* first the byte with Start and A, then the byte with C, B, Up, Down, Left,
\* Right, active low, and reconstructs exactly the pad's pressed set; a read
\* of a port's register toggles that port's select phase and resets the
\* other's; a peek changes neither.
C39_PadRead == [][SdkReadStep /\ ReadStep /\ PeekStep]_vars

\* port 2 has been read by the SDK after two other reads of the registers,
\* with six of the eight buttons held
C39_Witness ==
    /\ last.op = "pad" /\ last.port = 2
    /\ bus.gamepads[2].pressed = ControllerButtons \ {"A", "Up"}
    /\ last.byte0 = 255 - 32 /\ last.byte1 = 255 - 32 - 16 - 4 - 2 - 1
    /\ sdk.pads[2].buttons = 128 + 32 + 16 + 4 + 2 + 1
    /\ ops = 2


----------------------------------------------------------------------------
(* The pull instructions (gte-w65c02s instructions.rs, plp, pla, plx, ply). *)
(* pop and set_p are in the core's lib.rs: pop is taken to return the byte *)
(* on top of the stack, set_p to store the flags of the byte it is given.  *)

PullInstructions == {"pla", "plx", "ply", "plp"}

\* check_irq_edge; pop
PullOrder == <<"check_irq_edge", "pop">>

\* set_p: the carry, zero, decimal, overflow and negative flags of a byte
set_p(c, new_p) ==
    [c EXCEPT !.p = [c |-> Bit(new_p, 0), z |-> Bit(new_p, 1), d |-> Bit(new_p, 3),
                     v |-> Bit(new_p, 6), n |-> Bit(new_p, 7)]]

\* one pull instruction on CPU c with the byte pulled on top of the stack
Pull(name, c, pulled) ==
    CASE name = "pla" -> [c EXCEPT !.a = pulled]
      [] name = "plx" -> [c EXCEPT !.x = pulled]
      [] name = "ply" -> [c EXCEPT !.y = pulled]
      [] OTHER -> set_p(c, pulled)

MaxPulls == 1

PullBytes == {0, 1, 70, 128, 195, 255}

PullInit ==
    /\ blit = BlitterDefault
    /\ FreshMemory
    /\ data = [image |-> "banked", fills |-> {}, cells |-> <<>>]
    /\ flash = [state |-> [kind |-> "Idle", command |-> NoCommand], buffer |-> <<>>]
    /\ ticks = 0
    /\ quiet = FALSE
    /\ wlog = {}
    /\ ops = 0
    /\ sdk = SdkIdle
    /\ emu = [EmulatorInit EXCEPT !.play_state = "Playing"]
    /\ acp = AcpNew
    /\ aram = AramDefault
    /\ count = CountZero
    /\ audio = AudioOutNone(TARGET_SAMPLE_RATE)
    /\ \E a \in InstrAccumulators, c \in BOOLEAN, z \in BOOLEAN, n \in BOOLEAN :
            cpu = [state |-> "Running", irq |-> FALSE, nmi |-> FALSE,
                   a |-> a, x |-> 1, y |-> 2,
                   p |-> [c |-> c, z |-> z, d |-> FALSE, v |-> FALSE, n |-> n]]
    /\ \E pulled \in PullBytes : last = [op |-> "init", operand |-> pulled]

\* the CPU executes a pull instruction
ExecutePull ==
    /\ ops < MaxPulls
    /\ \E name \in PullInstructions :
          /\ cpu' = Pull(name, cpu, last.operand)
          /\ last' = [op |-> name, operand |-> last.operand, order |-> PullOrder,
                      decimal |-> cpu.p.d]
    /\ ops' = ops + 1
    /\ UNCHANGED <<emu, acp, bus, aram, count, audio, data, bank_shifter, bank_mask, flash>>
    /\ UNCHANGED busVars
    /\ UNCHANGED viaVars

\* the CPU executes a load of the same byte
ExecuteLoad ==
    /\ ops < MaxPulls
    /\ \E name \in {"lda", "ldx", "ldy"} :
          LET r == Instruction(name, cpu, last.operand)
          IN  /\ cpu' = r.cpu
              /\ last' = [op |-> name, operand |-> last.operand, order |-> r.order,
                          decimal |-> cpu.p.d]
    /\ ops' = ops + 1
    /\ UNCHANGED <<emu, acp, bus, aram, count, audio, data, bank_shifter, bank_mask, flash>>
    /\ UNCHANGED busVars
    /\ UNCHANGED viaVars

PullNext == ExecutePull \/ ExecuteLoad

SpecPull == PullInit /\ [][PullNext]_vars

\* the register a pull or a load fills
Target(c, name) ==
    CASE name \in {"pla", "lda"} -> c.a
      [] name \in {"plx", "ldx"} -> c.x
      [] OTHER -> c.y

\* the load of the same register
LoadOf(name) ==
    CASE name = "pla" -> "lda"
      [] name = "plx" -> "ldx"
      [] OTHER -> "ldy"

\* C40 as stated: PLA, PLX and PLY load their register with the pulled byte
\* and set N and Z from it as LDA, LDX and LDY do; PLP replaces the status
\* register with the pulled byte.
C40_Original ==
    [][/\ last'.op \in {"pla", "plx", "ply"} =>
             /\ Target(cpu', last'.op) = last.operand
             /\ cpu'.p.n = (last.operand >= 128)
             /\ cpu'.p.z = (last.operand = 0)
             /\ cpu' = Instruction(LoadOf(last'.op), cpu, last.operand).cpu
       /\ last'.op = "plp" => cpu' = set_p(cpu, last.operand)]_vars

\* what the code does: the register is loaded and no flag changes; the loads
\* set N and Z; PLP replaces the flags
C40_FlagsKept ==
    [][/\ last'.op \in {"pla", "plx", "ply"} =>
             /\ Target(cpu', last'.op) = last.operand
             /\ cpu'.p = cpu.p
       /\ last'.op \in {"lda", "ldx", "ldy"} =>
             /\ Target(cpu', last'.op) = last.operand
             /\ cpu'.p.n = (last.operand >= 128)
             /\ cpu'.p.z = (last.operand = 0)
       /\ last'.op = "plp" => cpu' = set_p(cpu, last.operand)]_vars

\* PLA has pulled zero and the zero flag is clear
C40_ZeroNotFlagged ==
    /\ last.op = "pla" /\ last.operand = 0
    /\ cpu.a = 0 /\ ~cpu.p.z

====
